---- MODULE Spec2Model ----
(***************************************************************************)
(* Model of the eBay duplicate-listing tool (src/Code.js).                 *)
(*                                                                         *)
(* Two state machines share this module:                                   *)
(*   Spec       - ChunkedProcessor, the resumable import -> detect ->      *)
(*                analyze -> export controller with its three persistence  *)
(*                tiers (memoryStorage, CacheService, the state sheet). It *)
(*                follows one chunked run; callers may also name           *)
(*                processIds that were never started;                      *)
(*   SpecDetect - detectDuplicates over an import sheet, writing the       *)
(*                duplicate list with its Keep/End tags.                   *)
(*                                                                         *)
(* A cell text is a sequence of one-character strings. A sheet is a record *)
(* telling whether it exists and holding its data rows (the header row is  *)
(* not counted).                                                           *)
(***************************************************************************)
EXTENDS Integers, Sequences, FiniteSets, TLC

VARIABLES
  memoryStorage,  \* ChunkedProcessor.memoryStorage: processId -> state object
  cache,          \* CacheService script cache: processId -> serialized state
  stateSheet,     \* rows of the PROCESS_STATE sheet: <<[processId, state]>>
  importSheet,    \* the IMPORT sheet
  dupSheet,       \* the DUPLICATES sheet
  exportSheet,    \* the EXPORT sheet
  nextId,         \* number of processIds generated so far
  pc,             \* "idle", or "exec" while executeNextPhase has a tail call pending
  cur,            \* processId of the invocation in progress (0 when none)
  call,           \* the invocation entered last: [op, pid]
  entered,        \* TRUE exactly in the state right after an invocation was entered
  ran,            \* phases executed by the current/last invocation, in order
  computed,       \* the local `state` object of executeNextPhase at its last return
  ret,            \* what the last invocation returned
  delivered       \* processIds whose final result has been returned

vars == <<memoryStorage, cache, stateSheet, importSheet, dupSheet, exportSheet,
          nextId, pc, cur, call, entered, ran, computed, ret, delivered>>

----------------------------------------------------------------------------
(* Bounds of the model *)

MaxProcs == 2       \* processIds a caller may name
MaxRows == 3        \* data rows of a CSV handed to the controller
ChunkSize == 2      \* rows per detect chunk (stands for detectState.chunkSize)
MaxGroupRows == 4   \* data rows of the import sheet in SpecDetect
MaxExportRows == 6  \* data rows of a long import sheet in SpecExport
MaxLayoutRows == 3  \* data rows of a short import sheet in SpecExport
MaxAutoRows == 2    \* data rows of a CSV handed to autoProcessEbayData
BoundarySpread == 6 \* distance of a data size of SpecBatch from a threshold
MaxLineLen == 4     \* characters of a CSV line in SpecParse
MaxCsvLineLen == 2  \* characters of a line of a CSV text in SpecImport
MaxCsvLines == 3    \* lines of a CSV text in SpecImport
MaxTitleLen == 4    \* characters of a title handed to normalizeTitle in SpecText
MaxTitleParts == 2  \* phrases of a title handed to calculateSimilarity
MaxSavedPhase == 2  \* phases a state handed to saveState may stand at
LargeDataRows == 3  \* rows from which detectDuplicates takes the chunked path
                    \* (stands for 15000)
ManyGroups == 2     \* groups above which the chunked list writer is used
                    \* (stands for 100)
MinDetectChunk == 2 \* least CHUNK_SIZE of detectDuplicatesChunked (stands for 1000)
MaxDetectChunk == 3 \* greatest CHUNK_SIZE of detectDuplicatesChunked (stands for 3000)

(* Program constants *)

MinTitleLength == 10   \* findDuplicatesInChunk: title.length > 10
TotalPhases == 4       \* initialState.totalPhases

ProcIds == 1..MaxProcs

\* the header row of an eBay listings file
StandardHeaders ==
  <<<<"I", "t", "e", "m", " ", "n", "u", "m", "b", "e", "r">>,
    <<"T", "i", "t", "l", "e">>,
    <<"S", "t", "a", "r", "t", " ", "d", "a", "t", "e">>>>

\* a header row whose id and date columns are named without "item" and "start"
ShortHeaders == <<<<"I", "D">>, <<"T", "i", "t", "l", "e">>, <<"D", "a", "t", "e">>>>

\* the header row of a sheet with one column that names neither a title nor
\* an id
LoneHeaders == <<<<"C", "o", "d", "e">>>>

\* The three columns the duplicate list puts before the original ones. A
\* character outside ASCII is written as its reading with the prefix "k_":
\* group id (guru-pu ID), kind (juufuku taipu), action (shori).
ActionHeader == <<"k_sho", "k_ri">>
ListHeaders ==
  <<<<"k_gu", "k_ru", "k_bar", "k_pu", "I", "D">>,
    <<"k_juu", "k_fuku", "k_ta", "k_i", "k_pu">>, ActionHeader>>

\* a sheet: whether it exists, its header row and its data rows. A data row
\* of the import sheet is the record of its first three cells, see Row.
SheetWith(headers, rows) == [exists |-> TRUE, headers |-> headers, rows |-> rows]

\* a sheet under the header row of an eBay listings file
Sheet(rows) == SheetWith(StandardHeaders, rows)

NoSheet == [exists |-> FALSE, headers |-> <<>>, rows |-> <<>>]

----------------------------------------------------------------------------
(* Characters and cell texts *)

LowerLetters ==
  {"a","b","c","d","e","f","g","h","i","j","k","l","m",
   "n","o","p","q","r","s","t","u","v","w","x","y","z"}

UpperLetters ==
  {"A","B","C","D","E","F","G","H","I","J","K","L","M",
   "N","O","P","Q","R","S","T","U","V","W","X","Y","Z"}

Digits == {"0","1","2","3","4","5","6","7","8","9"}

\* \s of a JavaScript regular expression (the members that occur in cells)
IsSpace(c) == c \in {" ", "\t"}

\* \w of a JavaScript regular expression
IsWord(c) == c \in LowerLetters \cup UpperLetters \cup Digits \cup {"_"}

\* the class [().\-_]
IsSymbol(c) == c \in {"(", ")", ".", "-", "_"}

UpperToLower ==
  [c \in UpperLetters |->
     CASE c = "A" -> "a" [] c = "B" -> "b" [] c = "C" -> "c" [] c = "D" -> "d"
       [] c = "E" -> "e" [] c = "F" -> "f" [] c = "G" -> "g" [] c = "H" -> "h"
       [] c = "I" -> "i" [] c = "J" -> "j" [] c = "K" -> "k" [] c = "L" -> "l"
       [] c = "M" -> "m" [] c = "N" -> "n" [] c = "O" -> "o" [] c = "P" -> "p"
       [] c = "Q" -> "q" [] c = "R" -> "r" [] c = "S" -> "s" [] c = "T" -> "t"
       [] c = "U" -> "u" [] c = "V" -> "v" [] c = "W" -> "w" [] c = "X" -> "x"
       [] c = "Y" -> "y" [] OTHER -> "z"]

\* String.prototype.toLowerCase
ToLowerCase(s) ==
  [i \in 1..Len(s) |-> IF s[i] \in UpperLetters THEN UpperToLower[s[i]] ELSE s[i]]

Drop(s, n) == SubSeq(s, n + 1, Len(s))

RECURSIVE CountSpaces(_)
\* length of the run of whitespace at the start of s
CountSpaces(s) ==
  IF s # <<>> /\ IsSpace(s[1]) THEN 1 + CountSpaces(Tail(s)) ELSE 0

RECURSIVE TrimStart(_)
TrimStart(s) == IF s # <<>> /\ IsSpace(s[1]) THEN TrimStart(Tail(s)) ELSE s

RECURSIVE TrimEnd(_)
TrimEnd(s) ==
  IF s # <<>> /\ IsSpace(s[Len(s)]) THEN TrimEnd(SubSeq(s, 1, Len(s) - 1)) ELSE s

\* String.prototype.trim
Trim(s) == TrimEnd(TrimStart(s))

RECURSIVE CollapseSpaces(_)
\* s.replace(/\s+/g, ' ')
CollapseSpaces(s) ==
  IF s = <<>> THEN <<>>
  ELSE IF IsSpace(s[1]) THEN <<" ">> \o CollapseSpaces(Drop(s, CountSpaces(s)))
  ELSE <<s[1]>> \o CollapseSpaces(Tail(s))

RECURSIVE RemoveEmptyPair(_, _, _)
\* s.replace(/\(\s*\)/g, '') with open = "(" and close = ")"; likewise [ ]
RemoveEmptyPair(s, open, close) ==
  IF s = <<>> THEN <<>>
  ELSE IF s[1] = open
    THEN LET k == CountSpaces(Tail(s))
         IN  IF Len(s) >= k + 2 /\ s[k + 2] = close
             THEN RemoveEmptyPair(Drop(s, k + 2), open, close)
             ELSE <<s[1]>> \o RemoveEmptyPair(Tail(s), open, close)
  ELSE <<s[1]>> \o RemoveEmptyPair(Tail(s), open, close)

RECURSIVE ReplaceLoneDot(_)
\* s.replace(/\s+\.\s+/g, ' ')
ReplaceLoneDot(s) ==
  IF s = <<>> THEN <<>>
  ELSE LET k == CountSpaces(s)
           rest == Drop(s, k)
           j == IF rest = <<>> THEN 0 ELSE CountSpaces(Tail(rest))
       IN  IF k > 0 /\ rest # <<>> /\ rest[1] = "." /\ j > 0
           THEN <<" ">> \o ReplaceLoneDot(Drop(rest, 1 + j))
           ELSE <<s[1]>> \o ReplaceLoneDot(Tail(s))

RECURSIVE TightenSymbols(_)
\* s.replace(/\s*([().\-_])\s*/g, '$1')
TightenSymbols(s) ==
  IF s = <<>> THEN <<>>
  ELSE LET k == CountSpaces(s)
           rest == Drop(s, k)
       IN  IF rest # <<>> /\ IsSymbol(rest[1])
           THEN <<rest[1]>> \o TightenSymbols(Drop(rest, 1 + CountSpaces(Tail(rest))))
           ELSE <<s[1]>> \o TightenSymbols(Tail(s))

\* s.replace(/[^\w\s().\-_]/g, '')
StripSpecial(s) == SelectSeq(s, LAMBDA c : IsWord(c) \/ IsSpace(c) \/ IsSymbol(c))

\* TextAnalyzer.normalizeTitle(title, false)
NormalizeTitleBasic(title) ==
  IF title = <<>> THEN <<>>
  ELSE StripSpecial(
         Trim(CollapseSpaces(
           TightenSymbols(
             ReplaceLoneDot(
               RemoveEmptyPair(
                 RemoveEmptyPair(CollapseSpaces(ToLowerCase(title)), "(", ")"),
                 "[", "]"))))))

----------------------------------------------------------------------------
(* Header rows and column resolution *)

\* String.prototype.includes
Includes(s, sub) ==
  \E i \in 0..(Len(s) - Len(sub)) : SubSeq(s, i + 1, i + Len(sub)) = sub

\* the first 0-based index whose cell satisfies Test, -1 when none does
FirstIndex(cells, Test(_)) ==
  IF \E i \in 1..Len(cells) : Test(cells[i])
  THEN (CHOOSE i \in 1..Len(cells) :
          Test(cells[i]) /\ \A j \in 1..(i - 1) : ~Test(cells[j])) - 1
  ELSE -1

\* findColumnIndices: String(h).toLowerCase().replace(/\s+/g, '')
HeaderKey(h) == SelectSeq(ToLowerCase(h), LAMBDA c : ~IsSpace(c))

IsTitleHeader(h) ==
  \/ Includes(HeaderKey(h), <<"t", "i", "t", "l", "e">>)
  \/ Includes(HeaderKey(h), <<"n", "a", "m", "e">>)

IsItemIdHeader(h) ==
  \/ Includes(HeaderKey(h), <<"i", "t", "e", "m">>)
  \/ Includes(HeaderKey(h), <<"i", "d">>)
  \/ Includes(HeaderKey(h), <<"n", "u", "m", "b", "e", "r">>)

IsStartDateHeader(h) ==
  \/ Includes(HeaderKey(h), <<"d", "a", "t", "e">>)
  \/ Includes(HeaderKey(h), <<"s", "t", "a", "r", "t">>)

\* FindColumnIndices with the default title column taken whatever the width
\* of the header row
FindColumnIndicesAnyWidth(headers) ==
  [titleIndex |->
     IF FirstIndex(headers, IsTitleHeader) = -1 THEN 1
     ELSE FirstIndex(headers, IsTitleHeader),
   itemIdIndex |->
     IF FirstIndex(headers, IsItemIdHeader) = -1 /\ Len(headers) > 0 THEN 0
     ELSE FirstIndex(headers, IsItemIdHeader),
   startDateIndex |->
     IF FirstIndex(headers, IsStartDateHeader) = -1 /\ Len(headers) > 2 THEN 2
     ELSE FirstIndex(headers, IsStartDateHeader)]

\* findColumnIndices(headers): the first matching header, else the
\* positional default where the row is wide enough, else -1
FindColumnIndices(headers) ==
  [titleIndex |->
     IF FirstIndex(headers, IsTitleHeader) = -1 /\ Len(headers) > 1 THEN 1
     ELSE FirstIndex(headers, IsTitleHeader),
   itemIdIndex |->
     IF FirstIndex(headers, IsItemIdHeader) = -1 /\ Len(headers) > 0 THEN 0
     ELSE FirstIndex(headers, IsItemIdHeader),
   startDateIndex |->
     IF FirstIndex(headers, IsStartDateHeader) = -1 /\ Len(headers) > 2 THEN 2
     ELSE FirstIndex(headers, IsStartDateHeader)]

\* generateExportCsv: the header of the item id column of the duplicate list
IsExportItemIdHeader(h) ==
  /\ Includes(ToLowerCase(h), <<"i", "t", "e", "m">>)
  /\ \/ Includes(ToLowerCase(h), <<"i", "d">>)
     \/ Includes(ToLowerCase(h), <<"n", "u", "m", "b", "e", "r">>)

\* generateExportCsv: actionIndex = headers.indexOf('処理') and itemIdIndex
ExportColumns(headers) ==
  [actionIndex |-> FirstIndex(headers, LAMBDA h : h = ActionHeader),
   itemIdIndex |-> FirstIndex(headers, IsExportItemIdHeader)]

----------------------------------------------------------------------------
(* Duplicate detection: groupByTitle, Array.prototype.sort, the duplicate list *)

\* A data row of the import sheet: the cells the column map resolves.
\* startDate: 0 is an empty cell, -1 a text that Date cannot parse, n > 0 a date.
Row(id, title, date) == [itemId |-> id, title |-> title, startDate |-> date]

\* groupByTitle, the object pushed for a row
Item(row) ==
  [itemId |-> Trim(row.itemId), title |-> NormalizeTitleBasic(row.title),
   startDate |-> row.startDate, allData |-> row]

\* Eligible without the test of the item id
EligibleAnyId(row) == NormalizeTitleBasic(row.title) # <<>>

\* groupByTitle / detectDuplicatesChunked: `if (title && itemId)`
Eligible(row) == NormalizeTitleBasic(row.title) # <<>> /\ Trim(row.itemId) # <<>>

RECURSIVE AddToGroups(_, _)
\* titleGroups[title].push(item), creating the key on first use. titleGroups is
\* kept as the sequence of its member lists in key-insertion order.
AddToGroups(groups, item) ==
  IF groups = <<>> THEN << <<item>> >>
  ELSE IF groups[1][1].title = item.title
    THEN <<Append(groups[1], item)>> \o Tail(groups)
    ELSE <<groups[1]>> \o AddToGroups(Tail(groups), item)

RECURSIVE AddRows(_, _)
\* the grouping loop over a block of rows, continuing from `groups`
AddRows(groups, rows) ==
  IF rows = <<>> THEN groups
  ELSE AddRows(IF Eligible(rows[1]) THEN AddToGroups(groups, Item(rows[1]))
               ELSE groups,
               Tail(rows))

\* groupByTitle(allData, titleIndex, itemIdIndex, startDateIndex)
GroupByTitle(rows) == AddRows(<<>>, rows)

\* A property key that is an array index ("0", "7", "12", no leading zero) is
\* enumerated before all other keys, in ascending numeric order. Keys of up
\* to nine digits are below 2^32 - 1.
IsArrayIndex(key) ==
  /\ key # <<>>
  /\ Len(key) <= 9
  /\ \A i \in 1..Len(key) : key[i] \in Digits
  /\ (key[1] # "0" \/ Len(key) = 1)

DigitValue(c) ==
  CASE c = "0" -> 0 [] c = "1" -> 1 [] c = "2" -> 2 [] c = "3" -> 3 [] c = "4" -> 4
    [] c = "5" -> 5 [] c = "6" -> 6 [] c = "7" -> 7 [] c = "8" -> 8 [] OTHER -> 9

RECURSIVE NumericValue(_)
NumericValue(key) ==
  IF key = <<>> THEN 0
  ELSE 10 * NumericValue(SubSeq(key, 1, Len(key) - 1)) + DigitValue(key[Len(key)])

RECURSIVE InsertByIndex(_, _)
InsertByIndex(sorted, group) ==
  IF sorted = <<>> THEN <<group>>
  ELSE IF NumericValue(group[1].title) < NumericValue(sorted[1][1].title)
    THEN <<group>> \o sorted
    ELSE <<sorted[1]>> \o InsertByIndex(Tail(sorted), group)

RECURSIVE IndexKeyGroups(_)
IndexKeyGroups(groups) ==
  IF groups = <<>> THEN <<>>
  ELSE IF IsArrayIndex(groups[Len(groups)][1].title)
    THEN InsertByIndex(IndexKeyGroups(SubSeq(groups, 1, Len(groups) - 1)),
                       groups[Len(groups)])
    ELSE IndexKeyGroups(SubSeq(groups, 1, Len(groups) - 1))

\* Object.values(titleGroups)
ObjectValues(groups) ==
  IndexKeyGroups(groups) \o SelectSeq(groups, LAMBDA g : ~IsArrayIndex(g[1].title))

\* group.sort comparator: 0 when a start date is missing; new Date of an
\* unparsable text is an invalid date, the difference is NaN, which sort reads as 0
CompareStartDate(a, b) ==
  IF a.startDate = 0 \/ b.startDate = 0 THEN 0
  ELSE IF a.startDate < 0 \/ b.startDate < 0 THEN 0
  ELSE b.startDate - a.startDate

\* the characters of the model in the order of their UTF-16 code units
CodeUnits ==
  <<"\t", " ", "!", "\"", "(", ")", ",", "-", ".",
    "0", "1", "2", "3", "4", "5", "6", "7", "8", "9",
    "A", "B", "C", "D", "E", "F", "G", "H", "I", "J", "K", "L", "M",
    "N", "O", "P", "Q", "R", "S", "T", "U", "V", "W", "X", "Y", "Z",
    "[", "]", "_",
    "a", "b", "c", "d", "e", "f", "g", "h", "i", "j", "k", "l", "m",
    "n", "o", "p", "q", "r", "s", "t", "u", "v", "w", "x", "y", "z">>

CharCode(c) == CHOOSE i \in 1..Len(CodeUnits) : CodeUnits[i] = c

RECURSIVE CompareText(_, _)
\* the order of sort() without a comparator: the strings compared code unit
\* by code unit, -1, 0 or 1
CompareText(a, b) ==
  IF a = <<>> THEN (IF b = <<>> THEN 0 ELSE -1)
  ELSE IF b = <<>> THEN 1
  ELSE IF a[1] = b[1] THEN CompareText(Tail(a), Tail(b))
  ELSE IF CharCode(a[1]) < CharCode(b[1]) THEN -1 ELSE 1

\* the comparator of a sort call: "date" for group.sort, "text" for sort()
\* without a comparator, "size" for .sort((a, b) => b.length - a.length)
Compare(kind, a, b) ==
  IF kind = "date" THEN CompareStartDate(a, b)
  ELSE IF kind = "text" THEN CompareText(a, b)
  ELSE Len(b) - Len(a)

Reverse(s) == [i \in 1..Len(s) |-> s[Len(s) + 1 - i]]

RECURSIVE RunLength(_, _, _, _)
\* CountAndMakeRun's loop: idx is the element compared with its predecessor
RunLength(kind, a, descending, idx) ==
  IF idx > Len(a) THEN idx - 1
  ELSE LET order == Compare(kind, a[idx], a[idx - 1])
       IN  IF (descending /\ order >= 0) \/ (~descending /\ order < 0)
           THEN idx - 1
           ELSE RunLength(kind, a, descending, idx + 1)

RECURSIVE InsertionPoint(_, _, _, _, _)
\* the binary search of BinaryInsertionSort; left and right count from 0
InsertionPoint(kind, a, pivot, left, right) ==
  IF left >= right THEN left
  ELSE LET mid == left + ((right - left) \div 2)
       IN  IF Compare(kind, pivot, a[mid + 1]) < 0
           THEN InsertionPoint(kind, a, pivot, left, mid)
           ELSE InsertionPoint(kind, a, pivot, mid + 1, right)

RECURSIVE BinaryInsertionSort(_, _, _)
\* a[1..start] is sorted; insert a[start+1], a[start+2], ... in turn
BinaryInsertionSort(kind, a, start) ==
  IF start >= Len(a) THEN a
  ELSE LET pivot == a[start + 1]
           left == InsertionPoint(kind, a, pivot, 0, start)
       IN  BinaryInsertionSort(kind,
             SubSeq(a, 1, left) \o <<pivot>> \o SubSeq(a, left + 1, start)
               \o SubSeq(a, start + 2, Len(a)),
             start + 1)

\* Array.prototype.sort as the V8 runtime of Apps Script performs it on an
\* array shorter than 64 elements: one natural run (reversed when strictly
\* descending), then binary insertion of the remaining elements
ArraySort(kind, a) ==
  IF Len(a) < 2 THEN a
  ELSE LET descending == Compare(kind, a[2], a[1]) < 0
           run == RunLength(kind, a, descending, 3)
           made == IF descending
                   THEN Reverse(SubSeq(a, 1, run)) \o SubSeq(a, run + 1, Len(a))
                   ELSE a
       IN  BinaryInsertionSort(kind, made, run)

\* Object.values(titleGroups).filter(group => group.length > 1).sort(...)
DuplicateGroups(titleGroups) ==
  ArraySort("size", SelectSeq(ObjectValues(titleGroups), LAMBDA g : Len(g) > 1))

RECURSIVE GetTotalDuplicates(_)
\* getTotalDuplicates(duplicateGroups)
GetTotalDuplicates(groups) ==
  IF groups = <<>> THEN 0 ELSE Len(groups[1]) + GetTotalDuplicates(Tail(groups))

\* ListRow that tags the last member of a group Keep
ListRowKeepLast(groupId, position, size, item) ==
  [groupId |-> groupId, position |-> position, size |-> size,
   action |-> IF position = size THEN "Keep" ELSE "End",
   itemId |-> item.allData.itemId, title |-> item.allData.title,
   startDate |-> item.allData.startDate]

\* A row of the duplicate list. action is "Keep" for the tag written as
\* '残す' and "End" for '終了'; a separator row has groupId 0.
ListRow(groupId, position, size, item) ==
  [groupId |-> groupId, position |-> position, size |-> size,
   action |-> IF position = 1 THEN "Keep" ELSE "End",
   itemId |-> item.allData.itemId, title |-> item.allData.title,
   startDate |-> item.allData.startDate]

SeparatorRow ==
  [groupId |-> 0, position |-> 0, size |-> 0, action |-> "",
   itemId |-> <<>>, title |-> <<>>, startDate |-> 0]

\* the rows written for one group: group.sort(...), then one row per member
GroupRows(group, groupId) ==
  LET sorted == ArraySort("date", group)
  IN  [i \in 1..Len(sorted) |-> ListRow(groupId, i, Len(sorted), sorted[i])]

RECURSIVE ListFrom(_, _, _)
ListFrom(groups, groupId, separators) ==
  IF groupId > Len(groups) THEN <<>>
  ELSE GroupRows(groups[groupId], groupId)
         \o (IF separators /\ groupId < Len(groups) THEN <<SeparatorRow>> ELSE <<>>)
         \o ListFrom(groups, groupId + 1, separators)

\* createDuplicateListSheet(sheet, duplicateGroups, originalHeaders)
CreateDuplicateListSheet(duplicateGroups) == ListFrom(duplicateGroups, 1, TRUE)

\* createDuplicateListSheetChunked(sheet, duplicateGroups, headers)
CreateDuplicateListSheetChunked(duplicateGroups) == ListFrom(duplicateGroups, 1, FALSE)

----------------------------------------------------------------------------
(* ChunkedProcessor: the process state and its three persistence tiers *)

Phases == <<"import", "detect", "analyze", "export">>

\* state.detectState before executeDetectPhase has created it
NoDetectState ==
  [defined |-> FALSE, chunkSize |-> 0, processedRows |-> 0, totalRows |-> 0,
   duplicateGroups |-> 0]

\* executeDetectPhase: the detectState created on the first detect invocation
NewDetectState ==
  [defined |-> TRUE, chunkSize |-> ChunkSize, processedRows |-> 0, totalRows |-> 0,
   duplicateGroups |-> 0]

\* startChunkedAutoProcess: initialState. error "" is null; a failure stores
\* the name of the phase that threw.
InitialState(p, csvData) ==
  [processId |-> p, phase |-> "import", csvData |-> csvData,
   totalPhases |-> TotalPhases, currentPhase |-> 1, completed |-> FALSE,
   error |-> "", detectState |-> NoDetectState,
   result |-> [success |-> FALSE, steps |-> <<>>]]

\* obj[key] = value and delete obj[key] on an object keyed by processId
Put(store, p, state) ==
  [q \in (DOMAIN store) \cup {p} |-> IF q = p THEN state ELSE store[q]]

Remove(store, p) == [q \in (DOMAIN store) \ {p} |-> store[q]]

\* saveStateToSheet that appends a row on every save
SaveStateToSheetAppending(sheet, p, state) ==
  Append(sheet, [processId |-> p, state |-> state])

RECURSIVE SaveStateToSheet(_, _, _)
\* saveStateToSheet: overwrite the first row of this processId, else append
SaveStateToSheet(sheet, p, state) ==
  IF sheet = <<>> THEN <<[processId |-> p, state |-> state]>>
  ELSE IF sheet[1].processId = p
    THEN <<[processId |-> p, state |-> state]>> \o Tail(sheet)
    ELSE <<sheet[1]>> \o SaveStateToSheet(Tail(sheet), p, state)

RECURSIVE GetStateFromSheet(_, _)
\* getStateFromSheet: the state of the first row of this processId, as <<state>>,
\* or <<>> for null
GetStateFromSheet(sheet, p) ==
  IF sheet = <<>> THEN <<>>
  ELSE IF sheet[1].processId = p THEN <<sheet[1].state>>
  ELSE GetStateFromSheet(Tail(sheet), p)

\* saveState: memory, then cache, then sheet
SaveState(m, c, sh, p, state) ==
  [memoryStorage |-> Put(m, p, state), cache |-> Put(c, p, state),
   stateSheet |-> SaveStateToSheet(sh, p, state)]

\* getState that asks the cache before memory and does not refill the cache
\* from the sheet
GetStateCacheFirst(m, c, sh, p) ==
  IF p \in DOMAIN c
  THEN [found |-> TRUE, state |-> <<c[p]>>, memoryStorage |-> Put(m, p, c[p]),
        cache |-> c]
  ELSE IF p \in DOMAIN m
  THEN [found |-> TRUE, state |-> <<m[p]>>, memoryStorage |-> m, cache |-> c]
  ELSE IF GetStateFromSheet(sh, p) # <<>>
  THEN [found |-> TRUE, state |-> GetStateFromSheet(sh, p),
        memoryStorage |-> Put(m, p, GetStateFromSheet(sh, p)[1]), cache |-> c]
  ELSE [found |-> FALSE, state |-> <<>>, memoryStorage |-> m, cache |-> c]

\* getState: memory, else cache (restored to memory), else sheet (restored to
\* memory and cache), else null
GetState(m, c, sh, p) ==
  IF p \in DOMAIN m
  THEN [found |-> TRUE, state |-> <<m[p]>>, memoryStorage |-> m, cache |-> c]
  ELSE IF p \in DOMAIN c
  THEN [found |-> TRUE, state |-> <<c[p]>>, memoryStorage |-> Put(m, p, c[p]),
        cache |-> c]
  ELSE LET sheetState == GetStateFromSheet(sh, p)
       IN  IF sheetState # <<>>
           THEN [found |-> TRUE, state |-> sheetState,
                 memoryStorage |-> Put(m, p, sheetState[1]),
                 cache |-> Put(c, p, sheetState[1])]
           ELSE [found |-> FALSE, state |-> <<>>, memoryStorage |-> m, cache |-> c]

\* clearState: delete from memory and from the cache
ClearState(m, c, p) == [memoryStorage |-> Remove(m, p), cache |-> Remove(c, p)]

\* Math.round((state.currentPhase / state.totalPhases) * 100)
Progress(state) ==
  (200 * state.currentPhase + state.totalPhases) \div (2 * state.totalPhases)

----------------------------------------------------------------------------
(* ChunkedProcessor: the phases *)

\* importCsvData as the controller sees it: a CSV without a data row is
\* refused and leaves the import sheet alone; any other CSV replaces it
ImportCsvData(csvData, imp) ==
  IF Len(csvData) = 0 THEN [success |-> FALSE, importSheet |-> imp]
  ELSE [success |-> TRUE, importSheet |-> Sheet(csvData)]

\* executeImportPhase
ExecuteImportPhase(state, imp) ==
  LET importResult == ImportCsvData(state.csvData, imp)
  IN  [state |-> state, outcome |-> "completed", saved |-> FALSE,
       step |-> [name |-> "import", success |-> importResult.success],
       importSheet |-> importResult.importSheet]

\* importSheet.getRange(startRow, 1, n, lastCol).getValues(): a row below the
\* last row reads as blank cells
BlankRow == Row(<<>>, <<>>, 0)

RowAt(imp, i) == IF i <= Len(imp.rows) THEN imp.rows[i] ELSE BlankRow

\* findDuplicatesInChunk: titles longer than 10 characters after trimming
\* that occur more than once in this chunk
FindDuplicatesInChunk(chunkData) ==
  LET title(i) == Trim(chunkData[i].title)
      counted == {i \in 1..Len(chunkData) : Len(title(i)) > MinTitleLength}
  IN  Cardinality({title(i) : i \in {j \in counted :
                     \E k \in counted : k # j /\ title(k) = title(j)}})

Min(a, b) == IF a < b THEN a ELSE b

WithDetectState(state, ds) == [state EXCEPT !.detectState = ds]

\* executeDetectChunk, `if (state.detectState.totalRows === 0)`: the first
\* invocation reads the number of data rows
InitTotals(ds, imp) ==
  IF ds.totalRows = 0
  THEN [ds EXCEPT !.totalRows = Len(imp.rows), !.processedRows = 0]
  ELSE ds

\* ActualChunkSize that takes a whole chunk whatever is left
ActualChunkSizeWhole(ds) == ds.chunkSize

\* executeDetectChunk: actualChunkSize = endRow - startRow + 1 with
\* startRow = processedRows + 2, endRow = min(startRow + chunkSize - 1, totalRows + 1)
ActualChunkSize(ds) ==
  Min(ds.processedRows + 2 + ds.chunkSize - 1, ds.totalRows + 1)
    - (ds.processedRows + 2) + 1

\* importSheet.getRange(startRow, 1, actualChunkSize, lastCol).getValues()
ChunkData(ds, imp, n) == [i \in 1..n |-> RowAt(imp, ds.processedRows + i)]

\* executeDetectChunk: the two updates after the chunk has been read
CountChunk(ds, imp, n) ==
  [ds EXCEPT !.duplicateGroups = @ + FindDuplicatesInChunk(ChunkData(ds, imp, n)),
             !.processedRows = @ + n]

ChunkResult(state, outcome, success) ==
  [state |-> state, outcome |-> outcome, success |-> success]

\* executeDetectChunk once totalRows is known: ds is the detectState after
\* InitTotals, first tells that this invocation initialised it, n is
\* actualChunkSize, done the detectState after the chunk
DetectChunkOutcome(state, ds, first, n, done, stopChunk, throws) ==
  IF first /\ ds.totalRows = 0
  THEN ChunkResult(WithDetectState(state, ds), "completed", TRUE)
  ELSE IF n <= 0
  THEN ChunkResult(WithDetectState(state, ds), "completed", TRUE)
  ELSE IF throws
  THEN ChunkResult(WithDetectState(state, ds), "throw", FALSE)
  ELSE IF stopChunk
  THEN ChunkResult(WithDetectState(state, done), "pause", TRUE)
  ELSE IF done.processedRows < done.totalRows
  THEN ChunkResult(WithDetectState(state, done), "continuing", TRUE)
  ELSE ChunkResult(WithDetectState(state, done), "completed", TRUE)

DetectChunkOn(state, ds, first, imp, stopChunk, throws) ==
  DetectChunkOutcome(state, ds, first, ActualChunkSize(ds),
                     CountChunk(ds, imp, ActualChunkSize(ds)), stopChunk, throws)

\* executeDetectChunk. outcome is "completed", "pause" (shouldPause),
\* "continuing" or "throw" (a host call raised an exception while the chunk
\* was read).
ExecuteDetectChunk(state, imp, stopChunk, throws) ==
  IF ~imp.exists
  THEN ChunkResult(state, "completed", FALSE)
  ELSE DetectChunkOn(state, InitTotals(state.detectState, imp),
                     state.detectState.totalRows = 0, imp, stopChunk, throws)

DetectPhaseResult(chunkResult, imp) ==
  [state |-> chunkResult.state, outcome |-> chunkResult.outcome,
   saved |-> chunkResult.outcome = "pause",
   step |-> [name |-> "detect", success |-> chunkResult.success],
   importSheet |-> imp]

\* executeDetectPhase; saved tells that it called saveState itself
ExecuteDetectPhase(state, imp, stopChunk, throws) ==
  DetectPhaseResult(
    ExecuteDetectChunk(IF state.detectState.defined THEN state
                       ELSE WithDetectState(state, NewDetectState),
                       imp, stopChunk, throws),
    imp)

\* executeAnalyzePhase
ExecuteAnalyzePhase(state, imp) ==
  [state |-> state, outcome |-> "completed", saved |-> FALSE,
   step |-> [name |-> "analyze", success |-> TRUE], importSheet |-> imp]

\* generateExportCsv: the headers written to the export sheet
ExportHeaders ==
  <<<<"A", "c", "t", "i", "o", "n">>, <<"I", "t", "e", "m", "I", "D">>,
    <<"E", "n", "d", "C", "o", "d", "e">>>>

\* row[k] of a data row of the duplicate list: the import columns follow the
\* three list columns
ListCell(row, k) ==
  CASE k = 3 -> row.itemId
    [] k = 4 -> row.title
    [] OTHER -> <<>>

\* generateExportCsv: exportData.push(['End', itemIdValue, 'OtherListingError'])
ExportRow(itemIdValue) ==
  <<<<"E", "n", "d">>, itemIdValue,
    <<"O", "t", "h", "e", "r", "L", "i", "s", "t", "i", "n", "g", "E", "r", "r", "o", "r">>>>

\* IsExported without the test of the tag
IsExportedAnyTag(row, itemIdIndex) == ListCell(row, itemIdIndex) # <<>>

\* generateExportCsv: `if (actionValue === '終了' && itemIdValue)`
IsExported(row, itemIdIndex) ==
  row.action = "End" /\ ListCell(row, itemIdIndex) # <<>>

RECURSIVE ExportData(_, _)
\* generateExportCsv: the loop over the data rows of the duplicate list
ExportData(rows, itemIdIndex) ==
  IF rows = <<>> THEN <<>>
  ELSE (IF IsExported(rows[1], itemIdIndex)
        THEN <<ExportRow(ListCell(rows[1], itemIdIndex))>> ELSE <<>>)
       \o ExportData(Tail(rows), itemIdIndex)

\* What generateExportCsv returns. message names the text; a field the
\* returned object does not have is -1, and data is <<>> when absent. The data
\* of a run that exported items is exportSheet.getDataRange().getValues(): the
\* header row and the item rows.
ExportResult(success, message, itemCount, data) ==
  [kind |-> "export", success |-> success, message |-> message,
   itemCount |-> itemCount, data |-> data]

\* generateExportCsv: what is returned for the extracted exportData
ExportedItems(exportData) ==
  IF exportData = <<>> THEN ExportResult(TRUE, "nothing", 0, <<>>)
  ELSE ExportResult(TRUE, "exported", Len(exportData), <<ExportHeaders>> \o exportData)

\* generateExportCsv(): the returned object
GenerateExportCsv(dup) ==
  IF ~dup.exists THEN ExportResult(FALSE, "no list", -1, <<>>)
  ELSE IF ExportColumns(dup.headers).actionIndex = -1
            \/ ExportColumns(dup.headers).itemIdIndex = -1
  THEN ExportResult(FALSE, "columns", -1, <<>>)
  ELSE ExportedItems(ExportData(dup.rows, ExportColumns(dup.headers).itemIdIndex))

\* generateExportCsv(): the export sheet a call with this result leaves; only
\* a run with items to export clears or creates the sheet
ExportSheetFor(exportResult, exp) ==
  IF exportResult.success /\ exportResult.itemCount > 0
  THEN SheetWith(ExportHeaders, Tail(exportResult.data))
  ELSE exp

ExportSheetAfter(dup, exp) == ExportSheetFor(GenerateExportCsv(dup), exp)

\* executeExportPhase
ExecuteExportPhase(state, imp, dup) ==
  [state |-> state, outcome |-> "completed", saved |-> FALSE,
   step |-> [name |-> "export", success |-> GenerateExportCsv(dup).success],
   importSheet |-> imp]

\* executeNextPhase: the switch over state.phase
ExecutePhase(state, imp, dup, stopChunk, throws) ==
  CASE state.phase = "import" -> ExecuteImportPhase(state, imp)
    [] state.phase = "detect" -> ExecuteDetectPhase(state, imp, stopChunk, throws)
    [] state.phase = "analyze" -> ExecuteAnalyzePhase(state, imp)
    [] OTHER -> ExecuteExportPhase(state, imp, dup)

----------------------------------------------------------------------------
(* ChunkedProcessor: executeNextPhase and the entry points *)

\* A returned object. Fields a return statement does not set are -1, "", 0,
\* FALSE or <<>>; result is <<state.result>> when the object carries it.
Returned(kind, p, success) ==
  [kind |-> kind, pid |-> p, success |-> success, progress |-> -1, phase |-> "",
   currentPhase |-> 0, completed |-> FALSE, error |-> "", result |-> <<>>]

NoReturn == Returned("none", 0, FALSE)

\* what one activation of executeNextPhase leaves and returns
Activation(m, c, sh, imp, returned, more, executed, state) ==
  [memoryStorage |-> m, cache |-> c, stateSheet |-> sh, importSheet |-> imp,
   ret |-> returned, more |-> more, executed |-> executed, state |-> state]

Tiers(m, c, sh) == [memoryStorage |-> m, cache |-> c, stateSheet |-> sh]

\* the tiers when the phase returns: `state` is the object held in
\* memoryStorage, so memory sees every mutation; saveState adds the rest
TiersAfterPhase(got, sh, p, phaseResult) ==
  IF phaseResult.saved
  THEN SaveState(got.memoryStorage, got.cache, sh, p, phaseResult.state)
  ELSE Tiers(Put(got.memoryStorage, p, phaseResult.state), got.cache, sh)

\* Advance with the next phase picked by phases[state.currentPhase] instead of
\* phases[state.currentPhase - 1], one position too far
AdvanceSkipping(state, step) ==
  IF state.currentPhase + 1 > state.totalPhases
  THEN [state EXCEPT !.currentPhase = @ + 1, !.result.steps = Append(@, step),
                     !.phase = "completed", !.completed = TRUE,
                     !.result.success = TRUE]
  ELSE [state EXCEPT !.currentPhase = @ + 1, !.result.steps = Append(@, step),
                     !.phase = Phases[Min(state.currentPhase + 2, TotalPhases)]]

\* executeNextPhase, `if (phaseResult.completed)`: count the phase, record
\* its step, move to the next phase or to completed
Advance(state, step) ==
  IF state.currentPhase + 1 > state.totalPhases
  THEN [state EXCEPT !.currentPhase = @ + 1, !.result.steps = Append(@, step),
                     !.phase = "completed", !.completed = TRUE,
                     !.result.success = TRUE]
  ELSE [state EXCEPT !.currentPhase = @ + 1, !.result.steps = Append(@, step),
                     !.phase = Phases[state.currentPhase + 1]]

\* executeNextPhase after saveState of the advanced state
AfterAdvance(saved, imp, p, phase, advanced, stopPhase) ==
  IF advanced.completed
  THEN Activation(Remove(saved.memoryStorage, p), Remove(saved.cache, p),
                  saved.stateSheet, imp,
                  [Returned("completed", p, TRUE) EXCEPT
                     !.completed = TRUE, !.result = <<advanced.result>>],
                  FALSE, <<phase>>, <<advanced>>)
  ELSE Activation(saved.memoryStorage, saved.cache, saved.stateSheet, imp,
                  [Returned("running", p, TRUE) EXCEPT
                     !.progress = Progress(advanced)],
                  ~stopPhase, <<phase>>, <<advanced>>)

\* executeNextPhase, catch (error): state.error = error.message; saveState
Caught(saved, imp, p, phase, failed) ==
  Activation(saved.memoryStorage, saved.cache, saved.stateSheet, imp,
             [Returned("error", p, FALSE) EXCEPT !.error = phase],
             FALSE, <<phase>>, <<failed>>)

\* executeNextPhase from the return of the phase on
AfterPhase(tiers, p, phase, phaseResult, stopPhase) ==
  IF phaseResult.outcome = "throw"
  THEN Caught(SaveState(tiers.memoryStorage, tiers.cache, tiers.stateSheet, p,
                        [phaseResult.state EXCEPT !.error = phase]),
              phaseResult.importSheet, p, phase,
              [phaseResult.state EXCEPT !.error = phase])
  ELSE IF stopPhase /\ phaseResult.outcome # "completed"
  THEN Activation(tiers.memoryStorage, tiers.cache, tiers.stateSheet,
                  phaseResult.importSheet,
                  [Returned("paused", p, TRUE) EXCEPT
                     !.progress = Progress(phaseResult.state)],
                  FALSE, <<phase>>, <<phaseResult.state>>)
  ELSE IF phaseResult.outcome = "completed"
  THEN AfterAdvance(SaveState(tiers.memoryStorage, tiers.cache, tiers.stateSheet, p,
                              Advance(phaseResult.state, phaseResult.step)),
                    phaseResult.importSheet, p, phase,
                    Advance(phaseResult.state, phaseResult.step), stopPhase)
  ELSE Activation(tiers.memoryStorage, tiers.cache, tiers.stateSheet,
                  phaseResult.importSheet,
                  [Returned("running", p, TRUE) EXCEPT
                     !.progress = Progress(phaseResult.state)],
                  FALSE, <<phase>>, <<phaseResult.state>>)

\* StateNotFound that starts an empty run under the unknown processId
StateNotFoundRestarts(got, sh, imp, p) ==
  Activation(Put(got.memoryStorage, p, InitialState(p, <<>>)),
             Put(got.cache, p, InitialState(p, <<>>)),
             SaveStateToSheet(sh, p, InitialState(p, <<>>)), imp,
             Returned("running", p, TRUE), FALSE, <<>>, <<InitialState(p, <<>>)>>)

\* executeNextPhase, `if (!state)`: report the missing state, touch nothing
StateNotFound(got, sh, imp, p) ==
  Activation(got.memoryStorage, got.cache, sh, imp,
             Returned("notfound", p, FALSE), FALSE, <<>>, <<>>)

\* executeNextPhase from the return of getState on
AfterGetState(got, sh, imp, dup, p, stopChunk, stopPhase, throws) ==
  IF ~got.found
  THEN StateNotFound(got, sh, imp, p)
  ELSE IF got.state[1].phase = "completed"
  THEN Activation(got.memoryStorage, got.cache, sh, imp,
                  [Returned("completed", p, TRUE) EXCEPT
                     !.completed = TRUE, !.result = <<got.state[1].result>>],
                  FALSE, <<>>, got.state)
  ELSE AfterPhase(
         TiersAfterPhase(got, sh, p,
                         ExecutePhase(got.state[1], imp, dup, stopChunk, throws)),
         p, got.state[1].phase,
         ExecutePhase(got.state[1], imp, dup, stopChunk, throws), stopPhase)

\* executeNextPhase(processId), one activation of it: what it leaves in the
\* tiers and the import sheet, what it returns, the phase it executed, its
\* local `state`, and more = TRUE when it ends in the call
\* `return this.executeNextPhase(processId)`.
\* stopPhase is timeCheck.shouldStop of executeNextPhase, stopChunk the one of
\* executeDetectChunk, throws whether a host call of the phase raises.
ExecuteNextPhase(m, c, sh, imp, dup, p, stopChunk, stopPhase, throws) ==
  AfterGetState(GetState(m, c, sh, p), sh, imp, dup, p, stopChunk, stopPhase, throws)

\* The effect of one activation on the variables. While a tail call is
\* pending nothing has been returned yet.
Activate(r, p, already) ==
  /\ memoryStorage' = r.memoryStorage
  /\ cache' = r.cache
  /\ stateSheet' = r.stateSheet
  /\ importSheet' = r.importSheet
  /\ ran' = already \o r.executed
  /\ computed' = r.state
  /\ pc' = IF r.more THEN "exec" ELSE "idle"
  /\ cur' = IF r.more THEN p ELSE 0
  /\ ret' = IF r.more THEN NoReturn ELSE r.ret
  /\ delivered' = IF ~r.more /\ r.ret.kind = "completed"
                  THEN delivered \cup {p} ELSE delivered
  /\ exportSheet' = IF \E k \in 1..Len(r.executed) : r.executed[k] = "export"
                    THEN ExportSheetAfter(dupSheet, exportSheet)
                    ELSE exportSheet
  /\ UNCHANGED dupSheet

\* the readings of the clock and the host failures of one activation; the
\* clock does not run backwards between the two checks
Inputs ==
  {i \in [stopChunk : BOOLEAN, stopPhase : BOOLEAN, throws : BOOLEAN] :
     i.stopChunk => i.stopPhase}

\* the rows a CSV of the model can hold
TitleA == <<"w","i","d","g","e","t"," ","a","l","p","h","a">>
TitleA2 == <<"W","i","d","g","e","t"," "," ","A","l","p","h","a">>
TitleB == <<"G","a","d","g","e","t"," ","B","e","t","a","2">>

CsvRows == {Row(<<"1">>, TitleA, 0), Row(<<"2">>, TitleA2, 0), Row(<<"3">>, TitleB, 0)}

RECURSIVE SeqsUpTo(_, _)
\* the sequences over S of length at most n
SeqsUpTo(S, n) ==
  IF n = 0 THEN {<<>>}
  ELSE LET shorter == SeqsUpTo(S, n - 1)
       IN  shorter \cup {Append(q, x) : q \in {t \in shorter : Len(t) = n - 1}, x \in S}

\* startChunkedAutoProcessFromUI(csvData) -> startChunkedAutoProcess: a new
\* processId, the initial state saved, then executeNextPhase
Start(csvData) ==
  /\ pc = "idle"
  /\ nextId = 0
  /\ LET p == nextId + 1
         saved == SaveState(memoryStorage, cache, stateSheet, p,
                            InitialState(p, csvData))
     IN  /\ nextId' = p
         /\ call' = [op |-> "start", pid |-> p]
         /\ entered' = TRUE
         /\ \E i \in Inputs :
              Activate(ExecuteNextPhase(saved.memoryStorage, saved.cache,
                         saved.stateSheet, importSheet, dupSheet, p,
                         i.stopChunk, i.stopPhase, i.throws), p, <<>>)

\* continueChunkedProcess(processId)
Continue(p) ==
  /\ pc = "idle"
  /\ call' = [op |-> "continue", pid |-> p]
  /\ entered' = TRUE
  /\ UNCHANGED nextId
  /\ \E i \in Inputs :
       Activate(ExecuteNextPhase(memoryStorage, cache, stateSheet, importSheet,
                  dupSheet, p, i.stopChunk, i.stopPhase, i.throws), p, <<>>)

\* the pending `return this.executeNextPhase(processId)` of the invocation
TailCall ==
  /\ pc = "exec"
  /\ entered' = FALSE
  /\ UNCHANGED <<nextId, call>>
  /\ \E i \in Inputs :
       Activate(ExecuteNextPhase(memoryStorage, cache, stateSheet, importSheet,
                  dupSheet, cur, i.stopChunk, i.stopPhase, i.throws), cur, ran)

\* getChunkedProcessStatus that counts the phase it reports as done in the
\* state it leaves in memory
GetChunkedProcessStatusAdvancing(m, c, sh, p) ==
  IF ~GetState(m, c, sh, p).found
  THEN [memoryStorage |-> m, cache |-> c, ret |-> Returned("nostatus", p, FALSE)]
  ELSE [memoryStorage |->
          Put(m, p, [GetState(m, c, sh, p).state[1] EXCEPT !.currentPhase = @ + 1]),
        cache |-> GetState(m, c, sh, p).cache,
        ret |-> [Returned("status", p, TRUE) EXCEPT
                   !.phase = GetState(m, c, sh, p).state[1].phase,
                   !.currentPhase = GetState(m, c, sh, p).state[1].currentPhase,
                   !.progress = Progress(GetState(m, c, sh, p).state[1]),
                   !.completed = GetState(m, c, sh, p).state[1].completed,
                   !.error = GetState(m, c, sh, p).state[1].error]]

\* getChunkedProcessStatus(processId)
GetChunkedProcessStatus(m, c, sh, p) ==
  LET got == GetState(m, c, sh, p)
  IN  [memoryStorage |-> got.memoryStorage, cache |-> got.cache,
       ret |-> IF ~got.found THEN Returned("nostatus", p, FALSE)
               ELSE [Returned("status", p, TRUE) EXCEPT
                       !.phase = got.state[1].phase,
                       !.currentPhase = got.state[1].currentPhase,
                       !.progress = Progress(got.state[1]),
                       !.completed = got.state[1].completed,
                       !.error = got.state[1].error]]

Status(p) ==
  /\ pc = "idle"
  /\ LET r == GetChunkedProcessStatus(memoryStorage, cache, stateSheet, p)
     IN  /\ memoryStorage' = r.memoryStorage
         /\ cache' = r.cache
         /\ ret' = r.ret
  /\ call' = [op |-> "status", pid |-> p]
  /\ entered' = TRUE
  /\ ran' = <<>>
  /\ UNCHANGED <<stateSheet, importSheet, dupSheet, exportSheet, nextId, pc, cur,
                 computed, delivered>>

\* The next invocation runs in a new execution context: the script's globals,
\* memoryStorage among them, start empty.
NewContext ==
  /\ pc = "idle"
  /\ memoryStorage # <<>>
  /\ memoryStorage' = <<>>
  /\ entered' = FALSE
  /\ UNCHANGED <<cache, stateSheet, importSheet, dupSheet, exportSheet, nextId, pc,
                 cur, call, ran, computed, ret, delivered>>

\* A cache entry (put with a lifetime of 3600 s) expires.
CacheExpire(p) ==
  /\ pc = "idle"
  /\ p \in DOMAIN cache
  /\ cache' = Remove(cache, p)
  /\ entered' = FALSE
  /\ UNCHANGED <<memoryStorage, stateSheet, importSheet, dupSheet, exportSheet,
                 nextId, pc, cur, call, ran, computed, ret, delivered>>

Init ==
  /\ memoryStorage = <<>>
  /\ cache = <<>>
  /\ stateSheet = <<>>
  /\ importSheet = NoSheet
  /\ dupSheet \in {NoSheet, SheetWith(ListHeaders \o StandardHeaders, <<>>)}
  /\ exportSheet = NoSheet
  /\ nextId = 0
  /\ pc = "idle"
  /\ cur = 0
  /\ call = [op |-> "none", pid |-> 0]
  /\ entered = FALSE
  /\ ran = <<>>
  /\ computed = <<>>
  /\ ret = NoReturn
  /\ delivered = {}

Next ==
  \/ \E csvData \in SeqsUpTo(CsvRows, MaxRows) : Start(csvData)
  \/ \E p \in ProcIds : Continue(p)
  \/ TailCall
  \/ \E p \in ProcIds : Status(p)
  \/ NewContext
  \/ \E p \in ProcIds : CacheExpire(p)

Spec == Init /\ [][Next]_vars

\* continueChunkedProcess(processId) issued from an execution context of its
\* own: memoryStorage starts empty, no host call throws
ContinueInNewContext(p) ==
  /\ pc = "idle"
  /\ p <= nextId
  /\ call' = [op |-> "continue", pid |-> p]
  /\ entered' = TRUE
  /\ UNCHANGED nextId
  /\ \E i \in {j \in Inputs : ~j.throws} :
       Activate(ExecuteNextPhase(<<>>, cache, stateSheet, importSheet,
                  dupSheet, p, i.stopChunk, i.stopPhase, FALSE), p, <<>>)

\* a tail call of a run in which no host call throws
TailCallQuiet ==
  /\ pc = "exec"
  /\ entered' = FALSE
  /\ UNCHANGED <<nextId, call>>
  /\ \E i \in {j \in Inputs : ~j.throws} :
       Activate(ExecuteNextPhase(memoryStorage, cache, stateSheet, importSheet,
                  dupSheet, cur, i.stopChunk, i.stopPhase, FALSE), cur, ran)

\* startChunkedAutoProcess of a run in which no host call throws
StartQuiet(csvData) ==
  /\ pc = "idle"
  /\ nextId = 0
  /\ nextId' = 1
  /\ call' = [op |-> "start", pid |-> 1]
  /\ entered' = TRUE
  /\ \E i \in {j \in Inputs : ~j.throws} :
       Activate(ExecuteNextPhase(
                  SaveState(memoryStorage, cache, stateSheet, 1,
                            InitialState(1, csvData)).memoryStorage,
                  SaveState(memoryStorage, cache, stateSheet, 1,
                            InitialState(1, csvData)).cache,
                  SaveState(memoryStorage, cache, stateSheet, 1,
                            InitialState(1, csvData)).stateSheet,
                  importSheet, dupSheet, 1, i.stopChunk, i.stopPhase, FALSE), 1, <<>>)

\* a run that is started once and then continued again and again, every
\* continue from a new execution context
NextRepeat ==
  \/ \E csvData \in SeqsUpTo(CsvRows, MaxRows) : StartQuiet(csvData)
  \/ \E p \in ProcIds : ContinueInNewContext(p)
  \/ TailCallQuiet

\* the client keeps calling: a call that can be made is made
SpecRepeat == Init /\ [][NextRepeat]_vars /\ WF_vars(NextRepeat)

----------------------------------------------------------------------------
(* detectDuplicates *)

\* the rows an import sheet of SpecDetect can hold: two spellings of one
\* title, with dated, undated and unparsable start dates, a second title, a
\* title of digits, a row without an item id and a row whose title
\* normalizes to the empty string
DetectRows ==
  {Row(<<"1">>, <<"a">>, 1), Row(<<"2">>, <<"a">>, 2), Row(<<"3">>, <<"a">>, 0),
   Row(<<"5">>, <<"A", " ">>, -1), Row(<<"6">>, <<"b">>, 1),
   Row(<<"7">>, <<"7">>, 0), Row(<<" ">>, <<"a">>, 2), Row(<<"8">>, <<"!">>, 1)}

\* titleGroups is created as {}: under these keys it inherits a property of
\* Object.prototype, so `!titleGroups[title]` is false and
\* titleGroups[title].push raises a TypeError
ConstructorKey == <<"c", "o", "n", "s", "t", "r", "u", "c", "t", "o", "r">>

IsInheritedKey(title) ==
  title \in {ConstructorKey, <<"_", "_", "p", "r", "o", "t", "o", "_", "_">>}

\* the grouping loop raises an exception on these rows; it reaches the catch
\* block of detectDuplicates
GroupingThrows(rows) ==
  \E i \in 1..Len(rows) :
    Eligible(rows[i]) /\ IsInheritedKey(NormalizeTitleBasic(rows[i].title))

\* What detectDuplicates returns. message names the text; a field the
\* returned object does not have is -1.
DetectResult(success, message, groups, items) ==
  [kind |-> "detect", success |-> success, message |-> message,
   duplicateGroups |-> groups, duplicateItems |-> items, duplicateCount |-> -1]

Detected(dup, result) == [dupSheet |-> dup, ret |-> result]

\* prepareDuplicateSheet, the list writer and the returned object
DetectedGroups(headers, groups, chunkedWriter) ==
  Detected(SheetWith(ListHeaders \o headers,
                     IF chunkedWriter THEN CreateDuplicateListSheetChunked(groups)
                     ELSE CreateDuplicateListSheet(groups)),
           DetectResult(TRUE, "groups", Len(groups), GetTotalDuplicates(groups)))

\* detectDuplicatesStandard. The data rows hold the cells of the columns
\* itemIdIndex 0, titleIndex 1 and startDateIndex 2.
DetectDuplicatesStandard(imp, dup) ==
  IF FindColumnIndices(imp.headers).titleIndex = -1
       \/ FindColumnIndices(imp.headers).itemIdIndex = -1
  THEN Detected(dup, DetectResult(FALSE, "columns", -1, -1))
  ELSE IF GroupingThrows(imp.rows)
  THEN Detected(dup, DetectResult(FALSE, "error", -1, -1))
  ELSE DetectedGroups(imp.headers, DuplicateGroups(GroupByTitle(imp.rows)), FALSE)

\* detectDuplicatesChunked: CHUNK_SIZE
DetectChunkSize(dataSize) ==
  Min(MaxDetectChunk,
      IF MinDetectChunk > dataSize \div 15 THEN MinDetectChunk ELSE dataSize \div 15)

\* GroupInChunks that stops after the first chunk
GroupInChunksFirstOnly(rows, chunkSize, done, groups) ==
  AddRows(groups, SubSeq(rows, done + 1, Min(done + chunkSize, Len(rows))))

RECURSIVE GroupInChunks(_, _, _, _)
\* detectDuplicatesChunked: the loop over chunks, grouping each chunk's rows
\* into the one titleGroups object; done rows are already grouped
GroupInChunks(rows, chunkSize, done, groups) ==
  IF done >= Len(rows) THEN groups
  ELSE GroupInChunks(rows, chunkSize, Min(done + chunkSize, Len(rows)),
         AddRows(groups, SubSeq(rows, done + 1, Min(done + chunkSize, Len(rows)))))

\* detectDuplicatesChunked: `if (duplicateGroups.length > 100)`
WriteList(headers, groups) == DetectedGroups(headers, groups, Len(groups) > ManyGroups)

\* detectDuplicatesChunked. timesOut: the clock has passed MAX_EXECUTION_TIME
\* when the chunk loop checks it.
DetectDuplicatesChunked(imp, dup, timesOut) ==
  IF FindColumnIndices(imp.headers).titleIndex = -1
       \/ FindColumnIndices(imp.headers).itemIdIndex = -1
  THEN Detected(dup, DetectResult(FALSE, "columns", -1, -1))
  ELSE IF timesOut THEN Detected(dup, DetectResult(FALSE, "timeout", -1, -1))
  ELSE IF GroupingThrows(imp.rows)
  THEN Detected(dup, DetectResult(FALSE, "error", -1, -1))
  ELSE WriteList(imp.headers,
         DuplicateGroups(GroupInChunks(imp.rows, DetectChunkSize(Len(imp.rows)),
                                       0, <<>>)))

\* detectDuplicates()
DetectDuplicates(imp, dup, timesOut) ==
  IF ~imp.exists THEN Detected(dup, DetectResult(FALSE, "no import", -1, -1))
  ELSE IF Len(imp.rows) = 0
  THEN Detected(dup, [DetectResult(TRUE, "zero", -1, -1) EXCEPT !.duplicateCount = 0])
  ELSE IF Len(imp.rows) >= LargeDataRows
  THEN DetectDuplicatesChunked(imp, dup, timesOut)
  ELSE DetectDuplicatesStandard(imp, dup)

\* one call of detectDuplicates with outcome r
DetectStep(r) ==
  /\ dupSheet' = r.dupSheet
  /\ ret' = r.ret
  /\ UNCHANGED <<memoryStorage, cache, stateSheet, importSheet, exportSheet, nextId,
                 pc, cur, call, entered, ran, computed, delivered>>

Detect ==
  \E timesOut \in BOOLEAN : DetectStep(DetectDuplicates(importSheet, dupSheet, timesOut))

\* the state before detection, over the import sheets in `sheets` and the
\* duplicate lists in `lists`
InitOver(sheets, lists) ==
  /\ memoryStorage = <<>>
  /\ cache = <<>>
  /\ stateSheet = <<>>
  /\ importSheet \in sheets
  /\ dupSheet \in lists
  /\ exportSheet = NoSheet
  /\ nextId = 0
  /\ pc = "idle"
  /\ cur = 0
  /\ call = [op |-> "none", pid |-> 0]
  /\ entered = FALSE
  /\ ran = <<>>
  /\ computed = <<>>
  /\ ret = NoReturn
  /\ delivered = {}

InitDetect ==
  InitOver({NoSheet} \cup {Sheet(rows) : rows \in SeqsUpTo(DetectRows, MaxGroupRows)},
           {NoSheet})

NextDetect == Detect

SpecDetect == InitDetect /\ [][NextDetect]_vars

----------------------------------------------------------------------------
(* Detection followed by the export, over import sheets of several layouts *)

\* the rows a long import sheet of SpecExport can hold: three titles
GroupedRows ==
  {Row(<<"1">>, <<"a">>, 1), Row(<<"6">>, <<"b">>, 1), Row(<<"7">>, <<"7">>, 0)}

\* the rows a short import sheet of SpecExport can hold: also a title that is
\* a property name of Object.prototype
ExportRows == GroupedRows \cup {Row(<<"9">>, <<"C">> \o Tail(ConstructorKey), 1)}

\* the header rows an import sheet of SpecExport can have besides the
\* standard one
OtherLayouts == {ShortHeaders, LoneHeaders}

\* one call of generateExportCsv
Export ==
  /\ exportSheet' = ExportSheetAfter(dupSheet, exportSheet)
  /\ ret' = GenerateExportCsv(dupSheet)
  /\ UNCHANGED <<memoryStorage, cache, stateSheet, importSheet, dupSheet, nextId,
                 pc, cur, call, entered, ran, computed, delivered>>

\* the duplicate list an earlier detection has left: one group of two rows
PriorList ==
  DetectedGroups(StandardHeaders,
    DuplicateGroups(GroupByTitle(<<Row(<<"1">>, <<"a">>, 1), Row(<<"2">>, <<"a">>, 2)>>)),
    FALSE).dupSheet

\* The import sheet is long, with the standard header row and no duplicate
\* list yet, or short, with any header row and possibly the list of an
\* earlier detection.
InitExport ==
  \/ InitOver({NoSheet} \cup {Sheet(rows) : rows \in SeqsUpTo(GroupedRows, MaxExportRows)},
              {NoSheet})
  \/ InitOver({SheetWith(headers, rows) :
                 headers \in OtherLayouts \cup {StandardHeaders},
                 rows \in SeqsUpTo(ExportRows, MaxLayoutRows)},
              {NoSheet, PriorList})

NextExport == Detect \/ Export

SpecExport == InitExport /\ [][NextExport]_vars

\* the rows an import sheet of SpecChunked can hold: two titles in two
\* spellings with different ids and start dates, and a title of digits
ChunkRows ==
  {Row(<<"1">>, <<"a">>, 1), Row(<<"2">>, <<"A", " ">>, 2), Row(<<"6">>, <<"b">>, 1),
   Row(<<"8">>, <<"b">>, 0), Row(<<"7">>, <<"7">>, 0)}

\* detection over import sheets with or without the list of an earlier
\* detection; the longer sheets begin with one row of each title, so that
\* more than ManyGroups groups can form
InitChunked ==
  InitOver({Sheet(rows) : rows \in SeqsUpTo(ChunkRows, MaxGroupRows)}
           \cup {Sheet(<<Row(<<"1">>, <<"a">>, 1), Row(<<"6">>, <<"b">>, 1),
                          Row(<<"7">>, <<"7">>, 0)>> \o rows) :
                   rows \in SeqsUpTo(ChunkRows, MaxGroupRows - 1)},
           {NoSheet, PriorList})

SpecChunked == InitChunked /\ [][Detect]_vars

----------------------------------------------------------------------------
(* autoProcessEbayData: import, detection, analysis and export in one call *)

\* importCsvData(csvData) for a CSV with the header row `headers`
ImportCsv(headers, csvData, imp) ==
  IF ImportCsvData(csvData, imp).success
  THEN [success |-> TRUE, importSheet |-> SheetWith(headers, csvData)]
  ELSE ImportCsvData(csvData, imp)

\* analyzeDuplicateTitles as autoProcessEbayData sees it: it fails without a
\* duplicate list, or when an exception reaches its catch block
AnalyzeDuplicateTitles(dup, analyzeFails) == [success |-> dup.exists /\ ~analyzeFails]

\* result.steps.push({name, success, ...})
Step(name, success) == [name |-> name, success |-> success]

\* the result object that autoProcessEbayData returns
AutoResult(success, steps) == [kind |-> "auto", success |-> success, steps |-> steps]

\* the sheets a call leaves and the object it returns
AutoOutcome(imp, dup, exp, result) ==
  [importSheet |-> imp, dupSheet |-> dup, exportSheet |-> exp, ret |-> result]

\* autoProcessEbayData, step 4: the export; result.success = true only here
AutoExport(imp, dup, exp, steps, exportResult) ==
  AutoOutcome(imp, dup, ExportSheetFor(exportResult, exp),
              AutoResult(exportResult.success,
                         Append(steps, Step("export", exportResult.success))))

\* autoProcessEbayData, step 3: the analysis, whose failure is only recorded
AutoAnalyze(imp, dup, exp, steps, analyzeFails) ==
  AutoExport(imp, dup, exp,
             Append(steps, Step("analyze",
                                AnalyzeDuplicateTitles(dup, analyzeFails).success)),
             GenerateExportCsv(dup))

\* AutoDetect without the return after a failed detection
AutoDetectContinuing(imp, exp, steps, detected, analyzeFails) ==
  AutoAnalyze(imp, detected.dupSheet, exp,
              Append(steps, Step("detect", detected.ret.success)), analyzeFails)

\* autoProcessEbayData, step 2: the detection
AutoDetect(imp, exp, steps, detected, analyzeFails) ==
  IF ~detected.ret.success
  THEN AutoOutcome(imp, detected.dupSheet, exp,
                   AutoResult(FALSE, Append(steps, Step("detect", FALSE))))
  ELSE AutoAnalyze(imp, detected.dupSheet, exp,
                   Append(steps, Step("detect", TRUE)), analyzeFails)

\* autoProcessEbayData, step 1: the import
AutoImport(importResult, dup, exp, analyzeFails, timesOut) ==
  IF ~importResult.success
  THEN AutoOutcome(importResult.importSheet, dup, exp,
                   AutoResult(FALSE, <<Step("import", FALSE)>>))
  ELSE AutoDetect(importResult.importSheet, exp, <<Step("import", TRUE)>>,
                  DetectDuplicates(importResult.importSheet, dup, timesOut),
                  analyzeFails)

\* autoProcessEbayData(csvData)
AutoProcessEbayData(headers, csvData, imp, dup, exp, analyzeFails, timesOut) ==
  AutoImport(ImportCsv(headers, csvData, imp), dup, exp, analyzeFails, timesOut)

\* the rows a CSV handed to autoProcessEbayData can hold
AutoRows ==
  {Row(<<"1">>, <<"a">>, 1), Row(<<"9">>, <<"C">> \o Tail(ConstructorKey), 1)}

\* one call of autoProcessEbayData with outcome r
AutoStep(r) ==
  /\ importSheet' = r.importSheet
  /\ dupSheet' = r.dupSheet
  /\ exportSheet' = r.exportSheet
  /\ ret' = r.ret
  /\ UNCHANGED <<memoryStorage, cache, stateSheet, nextId, pc, cur, call, entered,
                 ran, computed, delivered>>

\* The clock can pass MAX_EXECUTION_TIME only where detection takes the
\* chunked path.
AutoProcess ==
  \E headers \in OtherLayouts \cup {StandardHeaders},
     csvData \in SeqsUpTo(AutoRows, MaxAutoRows),
     analyzeFails \in BOOLEAN :
  \E timesOut \in IF Len(csvData) >= LargeDataRows THEN BOOLEAN ELSE {FALSE} :
    AutoStep(AutoProcessEbayData(headers, csvData, importSheet, dupSheet,
                                 exportSheet, analyzeFails, timesOut))

InitAuto == InitOver({NoSheet}, {NoSheet})

SpecAuto == InitAuto /\ [][AutoProcess]_vars

----------------------------------------------------------------------------
(* Pure functions: a call with its argument, then its return *)

\* the state in which one of `calls` has been made and has not returned
InitCalls(calls) ==
  /\ memoryStorage = <<>>
  /\ cache = <<>>
  /\ stateSheet = <<>>
  /\ importSheet = NoSheet
  /\ dupSheet = NoSheet
  /\ exportSheet = NoSheet
  /\ nextId = 0
  /\ pc = "idle"
  /\ cur = 0
  /\ call \in calls
  /\ entered = FALSE
  /\ ran = <<>>
  /\ computed = <<>>
  /\ ret = NoReturn
  /\ delivered = {}

\* the return of a pure function: nothing but the returned value changes
Return(value) ==
  /\ ret' = value
  /\ UNCHANGED <<memoryStorage, cache, stateSheet, importSheet, dupSheet, exportSheet,
                 nextId, pc, cur, call, entered, ran, computed, delivered>>

\* CalculateOptimalBatchSize with `<` for `<=`
CalculateOptimalBatchSizeBelow(dataSize) ==
  IF dataSize < 1000 THEN 500
  ELSE IF dataSize < 5000 THEN 1000
  ELSE IF dataSize < 20000 THEN 2000
  ELSE IF dataSize < 40000 THEN 3000
  ELSE 4000

\* CONFIG.calculateOptimalBatchSize(dataSize)
CalculateOptimalBatchSize(dataSize) ==
  IF dataSize <= 1000 THEN 500
  ELSE IF dataSize <= 5000 THEN 1000
  ELSE IF dataSize <= 20000 THEN 2000
  ELSE IF dataSize <= 40000 THEN 3000
  ELSE 4000

\* the data sizes of SpecBatch: those within BoundarySpread of 0 and of a
\* threshold of calculateOptimalBatchSize
BatchSizes ==
  UNION {((IF t > BoundarySpread THEN t - BoundarySpread ELSE 0)..(t + BoundarySpread)) :
           t \in {0, 1000, 5000, 20000, 40000}}

Calculate ==
  /\ call.op = "calculateOptimalBatchSize"
  /\ ret = NoReturn
  /\ Return([kind |-> "batch", size |-> CalculateOptimalBatchSize(call.dataSize)])

InitBatch ==
  InitCalls({[op |-> "calculateOptimalBatchSize", pid |-> 0, dataSize |-> n] :
               n \in BatchSizes})

SpecBatch == InitBatch /\ [][Calculate]_vars

----------------------------------------------------------------------------
(* The two parsers of a CSV line *)

Quote == "\""
Comma == ","

TrimAll(fields) == [k \in 1..Len(fields) |-> Trim(fields[k])]

RECURSIVE Split(_, _, _)
\* line.split(','): the cells up to position i are in result, cell is the
\* cell being read
Split(line, i, cell) ==
  IF i > Len(line) THEN <<cell>>
  ELSE IF line[i] = Comma THEN <<cell>> \o Split(line, i + 1, <<>>)
  ELSE Split(line, i + 1, Append(cell, line[i]))

RECURSIVE ParseLineFrom(_, _, _, _, _)
\* CSVHandler.parseLine: the loop over the characters, from position i. Two
\* adjacent quotes are an escaped quote whether inQuotes or not.
ParseLineFrom(line, i, inQuotes, currentValue, result) ==
  IF i > Len(line) THEN Append(result, Trim(currentValue))
  ELSE IF line[i] = Quote
  THEN IF i + 1 <= Len(line) /\ line[i + 1] = Quote
       THEN ParseLineFrom(line, i + 2, inQuotes, Append(currentValue, Quote), result)
       ELSE ParseLineFrom(line, i + 1, ~inQuotes, currentValue, result)
  ELSE IF line[i] = Comma /\ ~inQuotes
  THEN ParseLineFrom(line, i + 1, inQuotes, <<>>, Append(result, Trim(currentValue)))
  ELSE ParseLineFrom(line, i + 1, inQuotes, Append(currentValue, line[i]), result)

\* CSVHandler.parseLine(line)
ParseLine(line) ==
  IF Trim(line) = <<>> THEN <<>>
  ELSE IF \A k \in 1..Len(line) : line[k] # Quote THEN TrimAll(Split(line, 1, <<>>))
  ELSE ParseLineFrom(line, 1, FALSE, <<>>, <<>>)

RECURSIVE ParseCSVLineFrom(_, _, _, _, _)
\* parseCSVLine: the loop over the characters, from position i
ParseCSVLineFrom(line, i, inQuotes, current, result) ==
  IF i > Len(line) THEN Append(result, Trim(current))
  ELSE IF line[i] = Quote
  THEN IF inQuotes /\ i + 1 <= Len(line) /\ line[i + 1] = Quote
       THEN ParseCSVLineFrom(line, i + 2, inQuotes, Append(current, Quote), result)
       ELSE ParseCSVLineFrom(line, i + 1, ~inQuotes, current, result)
  ELSE IF line[i] = Comma /\ ~inQuotes
  THEN ParseCSVLineFrom(line, i + 1, inQuotes, <<>>, Append(result, Trim(current)))
  ELSE ParseCSVLineFrom(line, i + 1, inQuotes, Append(current, line[i]), result)

\* parseCSVLine(line)
ParseCSVLine(line) == ParseCSVLineFrom(line, 1, FALSE, <<>>, <<>>)

\* the characters of a line of SpecParse
LineChars == {Quote, Comma, "a", " "}

\* the lines handed to the parsers: importCsvData skips a line that is empty
\* after trimming
Lines == {line \in SeqsUpTo(LineChars, MaxLineLen) : Trim(line) # <<>>}

ParseLineCall ==
  /\ call.op = "parseLine"
  /\ ret = NoReturn
  /\ Return([kind |-> "parse", fields |-> ParseLine(call.line)])

ParseCSVLineCall ==
  /\ call.op = "parseCSVLine"
  /\ ret = NoReturn
  /\ Return([kind |-> "parse", fields |-> ParseCSVLine(call.line)])

InitParse ==
  InitCalls({[op |-> op, pid |-> 0, line |-> line] :
               op \in {"parseLine", "parseCSVLine"}, line \in Lines})

NextParse == ParseLineCall \/ ParseCSVLineCall

SpecParse == InitParse /\ [][NextParse]_vars

----------------------------------------------------------------------------
(* The import of a CSV text, cell by cell *)

\* the lines of a CSV text that are not blank: `if (line)` after trim,
\* `lines.filter(line => line.trim())`
NonBlank(lines) == SelectSeq(lines, LAMBDA line : Trim(line) # <<>>)

\* row.slice(0, headerLength).concat(Array(max(0, headerLength - row.length)).fill(''))
PadOrCut(row, headerLength) ==
  [k \in 1..headerLength |-> IF k <= Len(row) THEN row[k] ELSE <<>>]

\* importCsvData, step 5: every row brought to the length of the header row
UnifyColumns(csvRows) ==
  [i \in 1..Len(csvRows) |->
     IF i > 1 /\ Len(csvRows[i]) # Len(csvRows[1])
     THEN PadOrCut(csvRows[i], Len(csvRows[1]))
     ELSE csvRows[i]]

\* a row of another length than the first: range.setValues refuses such data
Ragged(csvRows) == \E i \in 1..Len(csvRows) : Len(csvRows[i]) # Len(csvRows[1])

\* writeToSheetOptimized(csvRows): the sheet is cleared or inserted, then
\* written in one setValues, which throws on ragged data and when the
\* service fails (serviceFails); a throw leaves the cleared sheet
WriteToSheetOptimized(csvRows, serviceFails) ==
  IF Ragged(csvRows)
  THEN [success |-> FALSE, threw |-> "columns", importSheet |-> SheetWith(<<>>, <<>>)]
  ELSE IF serviceFails
  THEN [success |-> FALSE, threw |-> "service", importSheet |-> SheetWith(<<>>, <<>>)]
  ELSE [success |-> TRUE, threw |-> "none",
        importSheet |-> SheetWith(csvRows[1], Tail(csvRows))]

\* the rows importCsvDataFallback writes: line.split(',') of every line that
\* is not blank
FallbackRows(lines) ==
  [i \in 1..Len(NonBlank(lines)) |-> Split(NonBlank(lines)[i], 1, <<>>)]

\* importCsvDataFallback(csvData): a throw of the write is caught and
\* returned as a failure
ImportCsvDataFallback(lines, imp, serviceFails) ==
  IF Len(FallbackRows(lines)) <= 1
  THEN [success |-> FALSE, threw |-> "none", importSheet |-> imp]
  ELSE WriteToSheetOptimized(FallbackRows(lines), serviceFails)

\* the rows of importCsvData's fast path: parseCSVLine of every trimmed line
\* that is not empty
FastRows(lines) ==
  [i \in 1..Len(NonBlank(lines)) |-> ParseCSVLine(Trim(NonBlank(lines)[i]))]

\* importCsvData(csvData) on a text of these lines: the fast path, and the
\* fallback when the write of the fast path throws
ImportCsvDataFast(lines, imp, serviceFails, fallbackFails) ==
  IF Len(NonBlank(lines)) = 0 THEN [success |-> FALSE, threw |-> "none", importSheet |-> imp]
  ELSE IF Len(FastRows(lines)) <= 1
  THEN [success |-> FALSE, threw |-> "none", importSheet |-> imp]
  ELSE IF WriteToSheetOptimized(UnifyColumns(FastRows(lines)), serviceFails).success
  THEN WriteToSheetOptimized(UnifyColumns(FastRows(lines)), serviceFails)
  ELSE ImportCsvDataFallback(lines, imp, fallbackFails)

\* CSVHandler.parse(csvData): the header line, then every later line that is
\* not blank, each through parseLine; no rows when the header line is blank
CSVHandlerParse(lines) ==
  IF Len(lines) = 0 \/ Len(ParseLine(lines[1])) = 0 THEN <<>>
  ELSE <<ParseLine(lines[1])>> \o
       [i \in 1..Len(NonBlank(Tail(lines))) |-> ParseLine(NonBlank(Tail(lines))[i])]

\* the CSV texts of SpecImport, as their lines
CsvTexts == SeqsUpTo(SeqsUpTo({Comma, "a"}, MaxCsvLineLen), MaxCsvLines)

\* one call of importCsvData
ImportCall ==
  /\ call.op = "importCsvData"
  /\ ret = NoReturn
  /\ \E serviceFails \in BOOLEAN, fallbackFails \in BOOLEAN :
       /\ importSheet' =
            ImportCsvDataFast(call.lines, importSheet, serviceFails, fallbackFails).importSheet
       /\ ret' = [kind |-> "import",
                  success |->
                    ImportCsvDataFast(call.lines, importSheet, serviceFails, fallbackFails).success,
                  threw |->
                    ImportCsvDataFast(call.lines, importSheet, serviceFails, fallbackFails).threw,
                  fallback |-> serviceFails]
  /\ UNCHANGED <<memoryStorage, cache, stateSheet, dupSheet, exportSheet,
                 nextId, pc, cur, call, entered, ran, computed, delivered>>

\* one call of CSVHandler.parse
ParseCall ==
  /\ call.op = "parse"
  /\ ret = NoReturn
  /\ Return([kind |-> "rows", rows |-> CSVHandlerParse(call.lines)])

InitImport ==
  InitCalls({[op |-> op, pid |-> 0, lines |-> lines] :
               op \in {"importCsvData", "parse"}, lines \in CsvTexts})

NextImport == ImportCall \/ ParseCall

SpecImport == InitImport /\ [][NextImport]_vars

----------------------------------------------------------------------------
(* TextAnalyzer: normalizeTitle and calculateSimilarity as functions *)

\* normalized.replace(/[().\-_]/g, '')
RemoveSymbols(s) == SelectSeq(s, LAMBDA c : ~IsSymbol(c))

\* normalizeTitle: replacements, in the order of Object.entries
Replacements ==
  << <<<<"i","n",".">>, <<"i","n","c","h">>>>,
     <<<<"i","n","c","h","e","s">>, <<"i","n","c","h">>>>,
     <<<<"f","t",".">>, <<"f","o","o","t">>>>,
     <<<<"f","e","e","t">>, <<"f","o","o","t">>>>,
     <<<<"l","b","s">>, <<"p","o","u","n","d">>>>,
     <<<<"l","b",".">>, <<"p","o","u","n","d">>>>,
     <<<<"p","o","u","n","d","s">>, <<"p","o","u","n","d">>>>,
     <<<<"o","z",".">>, <<"o","u","n","c","e">>>>,
     <<<<"o","u","n","c","e","s">>, <<"o","u","n","c","e">>>>,
     <<<<"p","c","s">>, <<"p","i","e","c","e">>>>,
     <<<<"p","c",".">>, <<"p","i","e","c","e">>>>,
     <<<<"p","i","e","c","e","s">>, <<"p","i","e","c","e">>>> >>

\* \b of a regular expression before position i of s
WordBoundary(s, i) ==
  (i > 1 /\ i - 1 <= Len(s) /\ IsWord(s[i - 1])) # (i <= Len(s) /\ IsWord(s[i]))

\* new RegExp('\\b' + abbr + '\\b') matches s at position i; the dot of abbr
\* is not escaped and stands for any character
MatchesAt(s, i, abbr) ==
  /\ i + Len(abbr) - 1 <= Len(s)
  /\ WordBoundary(s, i)
  /\ WordBoundary(s, i + Len(abbr))
  /\ \A k \in 1..Len(abbr) : abbr[k] = "." \/ abbr[k] = s[i + k - 1]

RECURSIVE ReplaceAbbr(_, _, _, _)
\* normalized.replace(new RegExp('\\b' + abbr + '\\b', 'g'), full), from position i
ReplaceAbbr(s, i, abbr, full) ==
  IF i > Len(s) THEN <<>>
  ELSE IF MatchesAt(s, i, abbr) THEN full \o ReplaceAbbr(s, i + Len(abbr), abbr, full)
  ELSE <<s[i]>> \o ReplaceAbbr(s, i + 1, abbr, full)

RECURSIVE ApplyReplacements(_, _)
\* the loop over Object.entries(replacements), from entry k
ApplyReplacements(s, k) ==
  IF k > Len(Replacements) THEN s
  ELSE ApplyReplacements(ReplaceAbbr(s, 1, Replacements[k][1], Replacements[k][2]), k + 1)

RECURSIVE SplitWords(_, _, _)
\* normalized.split(' '), from position i with word being read
SplitWords(s, i, word) ==
  IF i > Len(s) THEN <<word>>
  ELSE IF s[i] = " " THEN <<word>> \o SplitWords(s, i + 1, <<>>)
  ELSE SplitWords(s, i + 1, Append(word, s[i]))

StopWords ==
  {<<"a">>, <<"a","n">>, <<"t","h","e">>, <<"a","n","d">>, <<"o","r">>, <<"b","u","t">>,
   <<"i","s">>, <<"a","r","e">>, <<"o","n">>, <<"a","t">>, <<"t","o">>, <<"f","o","r">>,
   <<"w","i","t","h">>, <<"b","y">>, <<"i","n">>, <<"o","f">>}

\* words.filter(word => word.length > 2 && !stopWords.includes(word)), sorted
FilteredWords(words) ==
  ArraySort("text", SelectSeq(words, LAMBDA w : Len(w) > 2 /\ w \notin StopWords))

\* wordCounts[word]
WordCount(words, word) == Cardinality({i \in 1..Len(words) : words[i] = word})

RECURSIVE ImportantWords(_, _)
\* filteredWords.filter(...): the first occurrence of every word that occurs
\* more than once or is longer than 5 characters, from index i
ImportantWords(words, i) ==
  IF i > Len(words) THEN <<>>
  ELSE IF /\ \A j \in 1..(i - 1) : words[j] # words[i]
          /\ (WordCount(words, words[i]) > 1 \/ Len(words[i]) > 5)
  THEN <<words[i]>> \o ImportantWords(words, i + 1)
  ELSE ImportantWords(words, i + 1)

RECURSIVE Join(_)
\* words.join(' ')
Join(words) ==
  IF words = <<>> THEN <<>>
  ELSE IF Len(words) = 1 THEN words[1]
  ELSE words[1] \o <<" ">> \o Join(Tail(words))

\* normalizeTitle: the important words when there are at least three of
\* them, else all filtered words
ChooseWords(filteredWords) ==
  IF Len(ImportantWords(filteredWords, 1)) < 3 THEN Join(filteredWords)
  ELSE Join(ImportantWords(filteredWords, 1))

\* TextAnalyzer.normalizeTitle(title, true)
NormalizeTitleAdvanced(title) ==
  IF title = <<>> THEN <<>>
  ELSE ChooseWords(
         FilteredWords(
           SplitWords(
             ApplyReplacements(RemoveSymbols(CollapseSpaces(ToLowerCase(title))), 1),
             1, <<>>)))

\* new Set(normalized.split(' '))
WordSet(normalized) ==
  {SplitWords(normalized, 1, <<>>)[i] : i \in 1..Len(SplitWords(normalized, 1, <<>>))}

\* the quotient the similarity returns, as numerator and denominator
Quotient(n, d) == [num |-> n, den |-> d]

\* Jaccard with the words of the first title in place of the union
JaccardOverFirst(normalized1, normalized2) ==
  IF normalized1 = <<>> \/ normalized2 = <<>> THEN Quotient(0, 1)
  ELSE Quotient(Cardinality(WordSet(normalized1) \cap WordSet(normalized2)),
                Cardinality(WordSet(normalized1)))

\* calculateSimilarity on the two normalized titles
Jaccard(normalized1, normalized2) ==
  IF normalized1 = <<>> \/ normalized2 = <<>> THEN Quotient(0, 1)
  ELSE Quotient(Cardinality(WordSet(normalized1) \cap WordSet(normalized2)),
                Cardinality(WordSet(normalized1) \cup WordSet(normalized2)))

\* TextAnalyzer.calculateSimilarity(title1, title2)
CalculateSimilarity(title1, title2) ==
  Jaccard(NormalizeTitleAdvanced(title1), NormalizeTitleAdvanced(title2))

\* the titles handed to normalizeTitle(title, false): a letter of either
\* case, whitespace, the kept symbols and a character that is stripped
BasicTitles == SeqsUpTo({"a", "B", " ", "!", "(", ")", ".", "-"}, MaxTitleLen)

\* one call of normalizeTitle(title, false)
NormalizeTitleCall ==
  /\ call.op = "normalizeTitle"
  /\ ret = NoReturn
  /\ Return([kind |-> "title", normalized |-> NormalizeTitleBasic(call.title)])

\* the parts of the titles handed to calculateSimilarity: a stop word, an
\* abbreviation, and words longer than five characters
Phrases ==
  {<<"O","f">>, <<"l","b","s">>, <<"t","r","i","p","o","d">>,
   <<"c","a","m","e","r","a"," ","l","e","n","s","e","s">>}

\* the titles handed to calculateSimilarity: at most MaxTitleParts phrases
SimilarityTitles == {Join(parts) : parts \in SeqsUpTo(Phrases, MaxTitleParts)}

\* one call of calculateSimilarity(title1, title2)
CalculateSimilarityCall ==
  /\ call.op = "calculateSimilarity"
  /\ ret = NoReturn
  /\ Return([kind |-> "similarity",
             normalized1 |-> NormalizeTitleAdvanced(call.title1),
             normalized2 |-> NormalizeTitleAdvanced(call.title2),
             value |-> CalculateSimilarity(call.title1, call.title2)])

InitText ==
  InitCalls({[op |-> "normalizeTitle", pid |-> 0, title |-> title] : title \in BasicTitles}
            \cup {[op |-> "calculateSimilarity", pid |-> 0,
                    title1 |-> a, title2 |-> b] :
                    a \in SimilarityTitles, b \in SimilarityTitles})

NextText == NormalizeTitleCall \/ CalculateSimilarityCall

SpecText == InitText /\ [][NextText]_vars

----------------------------------------------------------------------------
(* saveState called repeatedly for several processIds *)

\* the states handed to saveState: a run of processId p at one of its first
\* phases
StatesToSave(p) ==
  {[InitialState(p, <<>>) EXCEPT !.currentPhase = k,
                                 !.phase = Phases[Min(k, TotalPhases)]] :
     k \in 1..MaxSavedPhase}

\* one call of saveState(processId, state): memory, the cache, then the
\* sheet; when the write of the row throws (setValues rejects a State cell
\* longer than a cell may be) saveState logs the error and the sheet keeps
\* what it held
SaveStateCall(p, state, sheetThrows) ==
  /\ pc = "idle"
  /\ memoryStorage' = SaveState(memoryStorage, cache, stateSheet, p, state).memoryStorage
  /\ cache' = SaveState(memoryStorage, cache, stateSheet, p, state).cache
  /\ stateSheet' = IF sheetThrows THEN stateSheet
                   ELSE SaveState(memoryStorage, cache, stateSheet, p, state).stateSheet
  /\ call' = [op |-> "saveState", pid |-> p]
  /\ computed' = <<state>>
  /\ ret' = Returned("saved", p, ~sheetThrows)
  /\ UNCHANGED <<importSheet, dupSheet, exportSheet, nextId, pc, cur, entered,
                 ran, delivered>>

NextSaves ==
  \E p \in ProcIds, sheetThrows \in BOOLEAN :
    \E state \in StatesToSave(p) : SaveStateCall(p, state, sheetThrows)

SpecSaves == Init /\ [][NextSaves]_vars

----------------------------------------------------------------------------
(* What a caller can observe of the stored state *)

\* the state a getState(p) issued now would return
Read(p) == GetState(memoryStorage, cache, stateSheet, p)

\* the state the durable store holds for p, <<state>> or <<>>
InSheet(p) == GetStateFromSheet(stateSheet, p)

\* the 1-based position of a phase in import, detect, analyze, export, completed
PhaseIndex(phase) ==
  CASE phase = "import" -> 1
    [] phase = "detect" -> 2
    [] phase = "analyze" -> 3
    [] phase = "export" -> 4
    [] phase = "completed" -> 5
    [] OTHER -> 0

\* the number of duplicate groups one pass of detectDuplicatesStandard reports
StandardCount(rows) == Len(DuplicateGroups(GroupByTitle(rows)))

----------------------------------------------------------------------------
(* Claims *)

\* C1: whenever a start or continue invocation has returned, the durable store
\* holds for that processId exactly the state the invocation computed, the
\* advanced processedRows of a detect chunk that returned "running" included.
C1_DurableEqualsComputed ==
  (pc = "idle" /\ computed # <<>>) =>
    InSheet(computed[1].processId) = computed

\* C2: when the detect phase has completed over an imported data set, the
\* duplicate-group count accumulated chunk by chunk equals the count of one
\* pass over the whole data. The data sets are those on which the per-chunk
\* counter applied to all rows at once agrees with the standard pass, so that
\* only the chunking differs.
C2_ChunkedCountEqualsUnchunked ==
  (/\ computed # <<>>
   /\ Len(computed[1].result.steps) >= 2
   /\ computed[1].result.steps[1].success
   /\ computed[1].result.steps[2].success
   /\ importSheet.exists
   /\ FindDuplicatesInChunk(importSheet.rows) = StandardCount(importSheet.rows))
  => computed[1].detectState.duplicateGroups = StandardCount(importSheet.rows)

C4_GoneAfterCompletion ==
  \A p \in delivered :
    p \notin DOMAIN memoryStorage /\ p \notin DOMAIN cache /\ InSheet(p) = <<>>

\* C5: a continue on a processId whose stored state records the error of a
\* failed phase executes no phase.
C5_FailedPhaseNotRerun ==
  [][\A p \in ProcIds :
       (/\ Read(p).found
        /\ Read(p).state[1].error # ""
        /\ entered'
        /\ call' = [op |-> "continue", pid |-> p])
       => ran' = <<>>]_vars

\* C6: a continue on a processId that no tier holds returns the state-not-found
\* failure, executes no phase, and leaves every tier without state for it.
C6_NotFoundNoRestart ==
  [][\A p \in ProcIds :
       (/\ ~Read(p).found
        /\ entered'
        /\ call' = [op |-> "continue", pid |-> p])
       => /\ ret'.kind = "notfound"
          /\ ~ret'.success
          /\ ran' = <<>>
          /\ pc' = "idle"
          /\ p \notin DOMAIN memoryStorage'
          /\ p \notin DOMAIN cache'
          /\ InSheet(p)' = <<>>
          /\ UNCHANGED <<memoryStorage, cache, stateSheet, importSheet, dupSheet,
                         exportSheet>>]_vars

\* C6 witness: a continue has just returned state-not-found
C6_NotFoundReturned ==
  /\ entered
  /\ call.op = "continue"
  /\ ret.kind = "notfound"
  /\ ~Read(call.pid).found

\* C7: when an invocation has returned paused in the detect phase with rows
\* left, the durable store holds the processedRows reached so far.
C7_PausePersistsProgress ==
  (/\ pc = "idle"
   /\ ret.kind = "paused"
   /\ computed # <<>>
   /\ computed[1].phase = "detect"
   /\ computed[1].detectState.processedRows < computed[1].detectState.totalRows)
  => /\ InSheet(computed[1].processId) # <<>>
     /\ InSheet(computed[1].processId)[1].phase = "detect"
     /\ InSheet(computed[1].processId)[1].detectState.processedRows
          = computed[1].detectState.processedRows

\* the first of memory, cache and sheet that holds state for p, <<>> if none
FirstHit(p) ==
  IF p \in DOMAIN memoryStorage THEN <<memoryStorage[p]>>
  ELSE IF p \in DOMAIN cache THEN <<cache[p]>>
  ELSE InSheet(p)

C9_StatusChangesNothing ==
  [][(entered' /\ call'.op = "status") =>
       /\ stateSheet' = stateSheet
       /\ UNCHANGED <<importSheet, dupSheet, exportSheet, nextId, pc, computed,
                      delivered>>
       /\ \A q \in ProcIds :
            /\ Read(q)'.found = Read(q).found
            /\ Read(q)'.state = Read(q).state
            /\ q \in DOMAIN memoryStorage' =>
                 \/ (q \in DOMAIN memoryStorage /\ memoryStorage'[q] = memoryStorage[q])
                 \/ <<memoryStorage'[q]>> = Read(q).state
            /\ q \in DOMAIN cache' =>
                 \/ (q \in DOMAIN cache /\ cache'[q] = cache[q])
                 \/ <<cache'[q]>> = Read(q).state]_vars

\* C9 witness: a status call has reported a run that is in its detect phase
\* with rows left
C9_StatusOfRunningDetect ==
  /\ entered
  /\ call.op = "status"
  /\ ret.kind = "status"
  /\ ret.phase = "detect"
  /\ Read(call.pid).found
  /\ Read(call.pid).state[1].detectState.processedRows > 0
  /\ Read(call.pid).state[1].detectState.processedRows
       < Read(call.pid).state[1].detectState.totalRows

\* the rows of the duplicate list that belong to a group
ListedItems == SelectSeq(dupSheet.rows, LAMBDA r : r.groupId > 0)

\* C10: in the duplicate list every group is a run of at least two rows of
\* which the first, and only the first, is tagged Keep and all others End.
C10_OneKeepPerGroup ==
  dupSheet.exists =>
    \A i \in 1..Len(ListedItems) :
      LET r == ListedItems[i]
          leads == i = 1 \/ ListedItems[i - 1].groupId # r.groupId
      IN  /\ r.action = (IF leads THEN "Keep" ELSE "End")
          /\ r.size >= 2
          /\ Cardinality({j \in 1..Len(ListedItems) :
                            ListedItems[j].groupId = r.groupId}) = r.size
          /\ Cardinality({j \in 1..Len(ListedItems) :
                            /\ ListedItems[j].groupId = r.groupId
                            /\ ListedItems[j].action = "Keep"}) = 1
          /\ \A j \in 1..Len(ListedItems) :
               (ListedItems[j].groupId = r.groupId /\ j < i) =>
                 \A k \in j..i : ListedItems[k].groupId = r.groupId

\* C10 witness: a list with two groups, each with a member tagged End
C10_TwoGroupsListed ==
  /\ dupSheet.exists
  /\ \E i, j \in 1..Len(ListedItems) :
       /\ ListedItems[i].groupId # ListedItems[j].groupId
       /\ ListedItems[j].action = "End"
       /\ ListedItems[i].action = "End"

\* C11: within every group of the duplicate list the members with a parseable
\* start date stand in descending date order, so that Keep is on the most
\* recent one, whatever the input order of the members.
C11_ParseableDatesDescending ==
  dupSheet.exists =>
    \A i, j \in 1..Len(ListedItems) :
      (/\ i < j
       /\ ListedItems[i].groupId = ListedItems[j].groupId
       /\ ListedItems[i].startDate > 0
       /\ ListedItems[j].startDate > 0)
      => ListedItems[i].startDate >= ListedItems[j].startDate

\* the data rows of the import sheet that share the normalized title of a
\* row and can be grouped: normalized title and trimmed item id both non-empty
ClassOf(title) ==
  {i \in 1..Len(importSheet.rows) :
     /\ NormalizeTitleBasic(importSheet.rows[i].title) = NormalizeTitleBasic(title)
     /\ NormalizeTitleBasic(importSheet.rows[i].title) # <<>>
     /\ Trim(importSheet.rows[i].itemId) # <<>>}

\* C12: whenever detection writes the duplicate list, its groups are exactly the classes of more than
\* one eligible data row under equality of normalized title: a listed row is
\* eligible, two listed rows are in one group iff their normalized titles are
\* equal, a group has as many rows as its class, and every row of such a class
\* is listed as often as it occurs in the data.
C12_GroupsAreTitleClasses ==
  dupSheet.exists =>
    /\ \A i \in 1..Len(ListedItems) :
         /\ NormalizeTitleBasic(ListedItems[i].title) # <<>>
         /\ Trim(ListedItems[i].itemId) # <<>>
         /\ Cardinality(ClassOf(ListedItems[i].title)) > 1
         /\ Cardinality({j \in 1..Len(ListedItems) :
                           ListedItems[j].groupId = ListedItems[i].groupId})
              = Cardinality(ClassOf(ListedItems[i].title))
         /\ \A j \in 1..Len(ListedItems) :
              (ListedItems[j].groupId = ListedItems[i].groupId)
                <=> (NormalizeTitleBasic(ListedItems[j].title)
                       = NormalizeTitleBasic(ListedItems[i].title))
    /\ \A i \in 1..Len(importSheet.rows) :
         (i \in ClassOf(importSheet.rows[i].title)
            /\ Cardinality(ClassOf(importSheet.rows[i].title)) > 1)
         => Cardinality({j \in 1..Len(ListedItems) :
                           /\ ListedItems[j].itemId = importSheet.rows[i].itemId
                           /\ ListedItems[j].title = importSheet.rows[i].title
                           /\ ListedItems[j].startDate
                                = importSheet.rows[i].startDate})
              = Cardinality({j \in 1..Len(importSheet.rows) :
                               importSheet.rows[j] = importSheet.rows[i]})

\* C12 witness: a group of two spellings of one title is listed while the
\* data also hold a row without item id, and a title that occurs once
C12_MixedDataGrouped ==
  /\ dupSheet.exists
  /\ \E i, j \in 1..Len(ListedItems) :
       /\ ListedItems[i].groupId = ListedItems[j].groupId
       /\ ListedItems[i].title # ListedItems[j].title
  /\ \E i \in 1..Len(importSheet.rows) :
       /\ Trim(importSheet.rows[i].itemId) = <<>>
       /\ NormalizeTitleBasic(importSheet.rows[i].title) # <<>>
  /\ \E i \in 1..Len(importSheet.rows) : ClassOf(importSheet.rows[i].title) = {i}

\* the first data row of the import sheet that carries the normalized title
FirstEncounter(title) ==
  CHOOSE i \in ClassOf(title) : \A j \in ClassOf(title) : i <= j

\* C13: the groups of the duplicate list stand in descending order of member
\* count, and groups of equal size in the order in which their normalized
\* titles first occur in the data rows.
C13_GroupsBySizeThenFirstEncounter ==
  dupSheet.exists =>
    \A i, j \in 1..Len(ListedItems) :
      ListedItems[i].groupId < ListedItems[j].groupId
      => /\ ListedItems[i].size >= ListedItems[j].size
         /\ ListedItems[i].size = ListedItems[j].size
              => FirstEncounter(ListedItems[i].title)
                   < FirstEncounter(ListedItems[j].title)

\* no two data rows of the import sheet that can be grouped share a
\* normalized title
NoSharedTitle ==
  \A i \in 1..Len(importSheet.rows) :
    Eligible(importSheet.rows[i]) => ClassOf(importSheet.rows[i].title) = {i}

\* C14: when detectDuplicates has run, without running out of time, on an
\* import sheet whose header row yields a title and an item id column and in
\* which no two eligible rows share a normalized title, it has returned
\* success = true with a duplicate group count of 0 (under either name the
\* returned object gives the count).
C14_ZeroDuplicatesIsSuccess ==
  (/\ ret.kind = "detect"
   /\ ret.message # "timeout"
   /\ importSheet.exists
   /\ FindColumnIndices(importSheet.headers).titleIndex # -1
   /\ FindColumnIndices(importSheet.headers).itemIdIndex # -1
   /\ NoSharedTitle)
  => /\ ret.success
     /\ ret.duplicateGroups = 0 \/ ret.duplicateCount = 0

\* no header of the import sheet names a title and the header row has no
\* second column, or none names an item id and the header row is empty
NoRequiredColumn ==
  \/ /\ \A k \in 1..Len(importSheet.headers) : ~IsTitleHeader(importSheet.headers[k])
     /\ Len(importSheet.headers) <= 1
  \/ /\ \A k \in 1..Len(importSheet.headers) : ~IsItemIdHeader(importSheet.headers[k])
     /\ Len(importSheet.headers) = 0

EndRows == SelectSeq(dupSheet.rows, LAMBDA r : r.action = "End" /\ r.itemId # <<>>)

\* C16: when generateExportCsv has succeeded, it reports as many items as the
\* duplicate list has rows tagged End with an item id; if there are any, the
\* export sheet and the returned data hold, under the header row, one row
\* (End, itemId, OtherListingError) for each of them, in list order, and no
\* other row.
C16_ExportIsEndRows ==
  (ret.kind = "export" /\ ret.success)
  => /\ ret.itemCount = Len(EndRows)
     /\ EndRows # <<>>
          => /\ exportSheet.exists
             /\ Len(exportSheet.rows) = Len(EndRows)
             /\ \A k \in 1..Len(EndRows) :
                  exportSheet.rows[k] = ExportRow(EndRows[k].itemId)
             /\ ret.data = <<exportSheet.headers>> \o exportSheet.rows

\* C16 witness: an export of two items of different ids from a duplicate list
\* that also holds Keep rows and a separator row
C16_TwoItemsExported ==
  /\ ret.kind = "export"
  /\ ret.success
  /\ Len(exportSheet.rows) = 2
  /\ exportSheet.rows[1][2] # exportSheet.rows[2][2]
  /\ \E k \in 1..Len(dupSheet.rows) : dupSheet.rows[k] = SeparatorRow
  /\ \E k \in 1..Len(dupSheet.rows) : dupSheet.rows[k].action = "Keep"

\* C17: when generateExportCsv has run on a duplicate list that has no row
\* tagged End with an item id, a list of the header row alone included, it has
\* returned success = true with itemCount 0 and empty data.
C17_NothingToExportIsSuccess ==
  (ret.kind = "export" /\ dupSheet.exists /\ EndRows = <<>>)
  => /\ ret.success
     /\ ret.itemCount = 0
     /\ ret.data = <<>>

\* C18: the steps that autoProcessEbayData records are a prefix of import,
\* detect, analyze, export; a step is followed by another only if it
\* succeeded or is the analysis; result.success is true exactly when all four
\* steps were run and import, detection and export succeeded; and after a
\* successful run the duplicate list is the one detection wrote from the
\* imported sheet.
C18_StepsArePrefixAndSuccess ==
  ret.kind = "auto" =>
    /\ Len(ret.steps) <= Len(Phases)
    /\ \A k \in 1..Len(ret.steps) : ret.steps[k].name = Phases[k]
    /\ \A k \in 1..(Len(ret.steps) - 1) :
         ret.steps[k].success \/ ret.steps[k].name = "analyze"
    /\ ret.success <=> /\ Len(ret.steps) = Len(Phases)
                       /\ \A k \in 1..Len(ret.steps) :
                            ret.steps[k].success \/ ret.steps[k].name = "analyze"
    /\ ret.success => /\ importSheet.exists
                      /\ dupSheet.exists
                      /\ dupSheet.headers = ListHeaders \o importSheet.headers

\* C18 witness: a run has succeeded on data without duplicates although its
\* analysis failed
C18_SucceededDespiteAnalysis ==
  /\ ret.kind = "auto"
  /\ ret.success
  /\ ~ret.steps[3].success
  /\ dupSheet.rows = <<>>

RECURSIVE ReferenceFields(_, _, _, _)
\* the state machine a line with a quote is read by: a quote that is the
\* first of two adjacent quotes met inside quotes emits one quote and leaves
\* the flag; any other quote toggles the flag; a comma outside quotes ends
\* the field; every other character, a comma inside quotes included, is
\* field content
ReferenceFields(line, i, inQuotes, field) ==
  IF i > Len(line) THEN <<field>>
  ELSE IF line[i] = Quote /\ inQuotes /\ i + 1 <= Len(line) /\ line[i + 1] = Quote
  THEN ReferenceFields(line, i + 2, inQuotes, Append(field, Quote))
  ELSE IF line[i] = Quote THEN ReferenceFields(line, i + 1, ~inQuotes, field)
  ELSE IF line[i] = Comma /\ ~inQuotes
  THEN <<field>> \o ReferenceFields(line, i + 1, inQuotes, <<>>)
  ELSE ReferenceFields(line, i + 1, inQuotes, Append(field, line[i]))

\* C20: for a line that contains a quote, the fields a line parser
\* (CSVHandler.parseLine or parseCSVLine) returns are those of the reference
\* state machine, up to the trimming both parsers apply to a finished field;
\* two adjacent quotes met outside quotes give an empty field.
C20_ParsersFollowReference ==
  (ret.kind = "parse" /\ \E k \in 1..Len(call.line) : call.line[k] = Quote)
  => ret.fields = TrimAll(ReferenceFields(call.line, 1, FALSE, <<>>))

\* C21: after an import the import sheet holds no data row of another length
\* than its header row, the rows CSVHandler.parse returns all have the length
\* of the first, and an import of a header line and at least one data line
\* fails only when the spreadsheet service fails, never over a ragged row
C21_RowsMatchHeader ==
  /\ ret.kind = "import" =>
       /\ \A i \in 1..Len(importSheet.rows) :
            Len(importSheet.rows[i]) = Len(importSheet.headers)
       /\ ret.threw # "columns"
  /\ ret.kind = "rows" =>
       \A i \in 1..Len(ret.rows) : Len(ret.rows[i]) = Len(ret.rows[1])

\* C22: the string normalizeTitle(s, false) returns is a fixed point of
\* normalizeTitle(., false): normalizing it again gives the same string
C22_BasicNormalizeIdempotent ==
  ret.kind = "title" => NormalizeTitleBasic(ret.normalized) = ret.normalized

\* the Jaccard coefficient of the word sets of the advanced-normalized forms
\* of the two titles of the call, as numerator and denominator
WordSetsQuotient ==
  [num |-> Cardinality(WordSet(ret.normalized1) \cap WordSet(ret.normalized2)),
   den |-> Cardinality(WordSet(ret.normalized1) \cup WordSet(ret.normalized2))]

\* C23 as stated: for two non-empty titles the returned similarity is the
\* Jaccard coefficient of the word sets of their advanced-normalized forms,
\* lies between 0 and 1, is the similarity of the titles exchanged, and is 1
\* when the two titles are the same
C23_SimilarityOfSelfIsOne ==
  (ret.kind = "similarity" /\ call.title1 # <<>> /\ call.title2 # <<>>) =>
    /\ ret.value.num * WordSetsQuotient.den = WordSetsQuotient.num * ret.value.den
    /\ 0 <= ret.value.num /\ ret.value.num <= ret.value.den /\ ret.value.den > 0
    /\ ret.value.num * Jaccard(ret.normalized2, ret.normalized1).den
         = Jaccard(ret.normalized2, ret.normalized1).num * ret.value.den
    /\ call.title1 = call.title2 => ret.value.num = ret.value.den

\* C23 amended: for two non-empty titles the returned similarity is 0 when
\* the advanced-normalized form of either is empty, else the Jaccard
\* coefficient of the word sets of the two forms; it lies between 0 and 1, is
\* the similarity of the titles exchanged, and is 1 when the two titles are
\* the same and their normalized form is not empty
C23_JaccardUnlessEmptyForm ==
  (ret.kind = "similarity" /\ call.title1 # <<>> /\ call.title2 # <<>>) =>
    /\ IF ret.normalized1 = <<>> \/ ret.normalized2 = <<>>
       THEN ret.value.num = 0
       ELSE ret.value.num * WordSetsQuotient.den = WordSetsQuotient.num * ret.value.den
    /\ 0 <= ret.value.num /\ ret.value.num <= ret.value.den /\ ret.value.den > 0
    /\ ret.value.num * Jaccard(ret.normalized2, ret.normalized1).den
         = Jaccard(ret.normalized2, ret.normalized1).num * ret.value.den
    /\ (call.title1 = call.title2 /\ ret.normalized1 # <<>>) =>
         ret.value.num = ret.value.den

\* C23 witness: the similarity of two titles that share one of three words
\* has been returned, the first title keeping its three important words
C23_OneOfThreeShared ==
  /\ ret.kind = "similarity"
  /\ ret.value = Quotient(1, 3)
  /\ Cardinality(WordSet(ret.normalized1)) = 3

\* the step is an activation of executeNextPhase for p: a continue of p, or
\* the pending tail call of the invocation of p
ActivationFor(p) ==
  \/ pc = "exec" /\ cur = p
  \/ pc = "idle" /\ entered' /\ call' = [op |-> "continue", pid |-> p]

\* totalRows and processedRows as executeDetectChunk takes them from the
\* detectState it is handed: a totalRows of 0 is read from the import sheet
TotalRowsOf(ds) == IF ds.totalRows = 0 THEN Len(importSheet.rows) ELSE ds.totalRows

ProcessedRowsOf(ds) == IF ds.totalRows = 0 THEN 0 ELSE ds.processedRows

\* processedRows lies between 0 and totalRows in this detectState
WithinTotal(ds) == 0 <= ds.processedRows /\ ds.processedRows <= ds.totalRows

\* C24: an activation that runs the detect phase without a throw on a state
\* with rows left adds min(chunkSize, totalRows - processedRows) to
\* processedRows, the chunk size being the fixed one; the phase moves on from
\* detect only with processedRows equal to totalRows; and in every state
\* reached processedRows lies between 0 and totalRows in every tier and in the
\* state the activation worked on
C24_DetectAdvancesByChunk ==
  [][/\ \A p \in ProcIds :
          /\ p \in DOMAIN memoryStorage' => WithinTotal(memoryStorage'[p].detectState)
          /\ p \in DOMAIN cache' => WithinTotal(cache'[p].detectState)
          /\ \A k \in 1..Len(stateSheet') : WithinTotal(stateSheet'[k].state.detectState)
     /\ computed' # <<>> => WithinTotal(computed'[1].detectState)
     /\ \A p \in ProcIds :
          (/\ ActivationFor(p)
           /\ Read(p).found
           /\ Read(p).state[1].phase = "detect"
           /\ importSheet.exists
           /\ ret'.kind # "error")
          => /\ computed'[1].detectState.chunkSize = ChunkSize
             /\ TotalRowsOf(Read(p).state[1].detectState)
                  > ProcessedRowsOf(Read(p).state[1].detectState)
                => computed'[1].detectState.processedRows
                     = ProcessedRowsOf(Read(p).state[1].detectState)
                       + Min(ChunkSize,
                             TotalRowsOf(Read(p).state[1].detectState)
                               - ProcessedRowsOf(Read(p).state[1].detectState))
             /\ computed'[1].phase # "detect"
                => computed'[1].detectState.processedRows
                     = computed'[1].detectState.totalRows]_vars

\* C24 witness: a detect activation has taken the last chunk, shorter than
\* the chunk size, of a sheet longer than one chunk
C24_LastChunkShort ==
  /\ computed # <<>>
  /\ ran # <<>> /\ ran[Len(ran)] = "detect"
  /\ computed[1].detectState.totalRows > ChunkSize
  /\ computed[1].detectState.totalRows % ChunkSize # 0
  /\ computed[1].detectState.processedRows = computed[1].detectState.totalRows

\* the state a new execution context reads for p: memory is empty, the cache
\* and the sheet are the persisted tiers
Persisted(c, sh, p) == GetState(<<>>, c, sh, p)

\* C25: from one detect invocation of a run to the next, each issued from a
\* new execution context and none throwing, the persisted processedRows
\* grows strictly unless the invocation finishes the detect phase, so that
\* the continues cannot work on the same chunk for ever and the run reaches
\* the completed result
C25_PersistedProgressGrows ==
  [][\A p \in ProcIds :
       (/\ pc = "idle"
        /\ entered'
        /\ call' = [op |-> "continue", pid |-> p]
        /\ ran' = <<"detect">>
        /\ Persisted(cache, stateSheet, p).found)
       => \/ Persisted(cache', stateSheet', p).state[1].phase # "detect"
          \/ /\ Persisted(cache', stateSheet', p).state[1].detectState.defined
             /\ Persisted(cache', stateSheet', p).state[1].detectState.processedRows
                  > ProcessedRowsOf(Persisted(cache, stateSheet, p).state[1].detectState)]_vars

\* C26: a completed result that is returned carries success = TRUE only when
\* every step it records succeeded, and a run whose import step failed
\* records no step after it
C26_SuccessOnlyIfStepsSucceed ==
  /\ (ret.kind = "completed" /\ ret.result # <<>> /\ ret.result[1].success)
     => \A k \in 1..Len(ret.result[1].steps) : ret.result[1].steps[k].success
  /\ (computed # <<>> /\ computed[1].result.steps # <<>>
        /\ ~computed[1].result.steps[1].success)
     => Len(computed[1].result.steps) = 1

\* the rows of the members of the groups of a duplicate list, in list order
MemberRows(dup) == SelectSeq(dup.rows, LAMBDA r : r.groupId > 0)

\* the outcome `chunked` of the chunked path is the outcome `standard` of
\* detectDuplicatesStandard: the same returned object, the same list headers,
\* the same member rows in the same order
SameDetection(chunked, standard) ==
  /\ chunked.ret = standard.ret
  /\ chunked.dupSheet.exists = standard.dupSheet.exists
  /\ chunked.dupSheet.headers = standard.dupSheet.headers
  /\ MemberRows(chunked.dupSheet) = MemberRows(standard.dupSheet)

\* C27: a call of detectDuplicates that takes the chunked path either runs
\* out of time, fails and leaves the duplicate list as it was, or returns
\* what detectDuplicatesStandard returns on the same import sheet and lists
\* the same member rows in the same order; and grouping the rows chunk by
\* chunk gives the groups of one pass for every chunk size
C27_ChunkedRefinesStandard ==
  [][(/\ ret'.kind = "detect"
      /\ importSheet.exists
      /\ Len(importSheet.rows) >= LargeDataRows)
     => IF ret'.message = "timeout"
        THEN ~ret'.success /\ dupSheet' = dupSheet
        ELSE /\ SameDetection(Detected(dupSheet', ret'),
                              DetectDuplicatesStandard(importSheet, dupSheet))
             /\ ret'.success =>
                  \A chunkSize \in 1..Len(importSheet.rows) :
                    DuplicateGroups(GroupInChunks(importSheet.rows, chunkSize, 0, <<>>))
                      = DuplicateGroups(GroupByTitle(importSheet.rows))]_vars

\* C27 witness: the chunked path has listed two groups, one of them with
\* members of different item ids from two chunks, over an earlier list
C27_GroupAcrossChunks ==
  /\ ret.kind = "detect" /\ ret.success
  /\ Len(importSheet.rows) >= LargeDataRows
  /\ ret.duplicateGroups = 2
  /\ \E i, j \in 1..Len(importSheet.rows) :
       /\ i <= DetectChunkSize(Len(importSheet.rows))
       /\ j > DetectChunkSize(Len(importSheet.rows))
       /\ importSheet.rows[i].itemId # importSheet.rows[j].itemId
       /\ NormalizeTitleBasic(importSheet.rows[i].title)
            = NormalizeTitleBasic(importSheet.rows[j].title)

\* C28: when generateExportCsv has returned success, the item rows of the
\* export sheet are the rows it extracts from the current duplicate list, one
\* per End row, and none when the list has no End row
C28_ExportSheetIsCurrent ==
  (ret.kind = "export" /\ ret.success)
  => /\ exportSheet.rows
          = ExportData(dupSheet.rows, ExportColumns(dupSheet.headers).itemIdIndex)
     /\ ret.itemCount = 0 => exportSheet.rows = <<>>

\* C29: a progress percentage returned by continue(processId) or
\* status(processId) lies between 0 and 100 and is not below the percentage
\* the previous report for the same processId carried, also when the state
\* read is the one persisted at completion
C29_ProgressWithinHundredAndGrows ==
  [][(ret'.kind \in {"running", "paused", "status"} /\ ret'.progress # -1)
       => /\ ret'.progress >= 0
          /\ ret'.progress <= 100
          /\ (ret.pid = ret'.pid /\ ret.progress # -1)
               => ret'.progress >= ret.progress]_vars

\* the rows of the state sheet that carry processId q
RowsFor(sheet, q) == {i \in DOMAIN sheet : sheet[i].processId = q}

\* C30: after every saveState the state sheet holds at most one row for each
\* processId; a save whose sheet write succeeded leaves the saved state in
\* the row of its processId, keeping the position of a row that was there;
\* every other row, and every row after a save whose sheet write threw, is
\* what it was
C30_OneRowPerProcessLatestSave ==
  [][\A q \in ProcIds :
       /\ Cardinality(RowsFor(stateSheet', q)) <= 1
       /\ IF ret'.kind = "saved" /\ ret'.success /\ ret'.pid = q
          THEN /\ \A i \in RowsFor(stateSheet', q) :
                    stateSheet'[i].state = computed'[1]
               /\ RowsFor(stateSheet', q) # {}
               /\ RowsFor(stateSheet, q) # {}
                    => /\ RowsFor(stateSheet', q) = RowsFor(stateSheet, q)
                       /\ Len(stateSheet') = Len(stateSheet)
          ELSE /\ RowsFor(stateSheet', q) = RowsFor(stateSheet, q)
               /\ \A i \in RowsFor(stateSheet, q) :
                    stateSheet'[i].state = stateSheet[i].state]_vars

\* C30 witness: a save has just overwritten, in place, the row of a
\* processId with a later phase while the row of another processId follows
\* it and a later state of that other processId, whose sheet write threw,
\* is held in memory only
C30_UpdatedInPlace ==
  /\ ret.kind = "saved" /\ ret.success
  /\ Len(stateSheet) = 2
  /\ stateSheet[1].processId = ret.pid
  /\ stateSheet[1].state = computed[1]
  /\ stateSheet[1].state.currentPhase > 1
  /\ stateSheet[2].processId # ret.pid
  /\ stateSheet[2].processId \in DOMAIN memoryStorage
  /\ memoryStorage[stateSheet[2].processId] # stateSheet[2].state

====
